---- MODULE Spec2Model ----
(***************************************************************************)
(* Polling state machine of the Anything World Python clients.             *)
(*                                                                         *)
(* Three client variants live in the repository and are modelled side by   *)
(* side:                                                                   *)
(*   "root"  : anything_world/api_client.py      (async, single stage)     *)
(*   "async" : anything_world/async_api/...      (async, stage lists)      *)
(*   "sync"  : anything_world/sync_api/...       (blocking, stage lists)   *)
(*                                                                         *)
(* One behaviour is one client object (variant fixed at construction) on   *)
(* which a caller issues calls, one after the other.                       *)
(* The service is the environment: every request is answered by one of a   *)
(* finite set of HTTP responses.                                           *)
(***************************************************************************)
EXTENDS Integers, Sequences, FiniteSets, TLC

\* ------------------------------------------------------------------ bounds

\* Largest number of loop iterations of one polling call that is explored.
MaxAttempts == 3

\* Largest number of loop iterations a polling call makes while the job is
\* still being worked on, where the job finishes for good.
MaxLiveAttempts == 2

\* Longest time a request is followed while it waits for its answer.
MaxWait == 3

\* Largest number of loop iterations of each of the two polls of a
\* generate_animated_from_text / _image call that is explored.
MaxFlowAttempts == 3

\* Largest number of loop iterations of each of the concurrent polling
\* sequences that is explored.
MaxPairAttempts == 2

\* --------------------------------------------------------------- JSON data

\* Every Python value the clients handle is a record of one shape, tagged by
\* its Python type:  dict (ordered key/value pairs, string values), list,
\* int, str, bool and None.
JDict(kv)    == [t |-> "dict", kv |-> kv,   items |-> <<>>,  n |-> 0, s |-> ""]
JList(items) == [t |-> "list", kv |-> <<>>, items |-> items, n |-> 0, s |-> ""]
JNum(n)      == [t |-> "int",  kv |-> <<>>, items |-> <<>>,  n |-> n, s |-> ""]
JStr(s)      == [t |-> "str",  kv |-> <<>>, items |-> <<>>,  n |-> 0, s |-> s]
JBool(b)     == [t |-> "bool", kv |-> <<>>, items |-> <<>>,
                 n |-> IF b THEN 1 ELSE 0, s |-> ""]
None         == [t |-> "NoneType", kv |-> <<>>, items |-> <<>>, n |-> 0, s |-> ""]

\* Stage names used by the service and by the catalogs.
TGF == "thumbnails_generation_finished"
FCF == "formats_conversion_finished"
MAF == "migrate_animation_finished"
FC  == "format_conversion"
TG  == "thumbnails_generation"
QUEUED == "queued"

\* Status documents (JSON objects) the service may answer with.
DocEmpty      == JDict(<<>>)
DocStage(s)   == JDict(<< <<"stage", s>> >>)
DocNoStage2   == JDict(<< <<"name", "cat">>, <<"model", "glb">> >>)
DocStage2(s)  == JDict(<< <<"stage", s>>, <<"name", "cat">> >>)
DocError      == JDict(<< <<"code", "404">>, <<"message", "No match found">> >>)

\* The JSON objects among the bodies: the status documents.
Documents ==
    { DocEmpty, DocStage(QUEUED), DocStage(TGF), DocStage(FCF), DocStage(FC),
      DocNoStage2, DocStage2(FCF) }

\* Every JSON body of the explored responses.
Bodies ==
    Documents \cup
    { JList(<<DocStage(FCF)>>), JList(<<DocStage(QUEUED)>>), JList(<<DocNoStage2>>),
      JList(<<>>), JList(<<DocStage(QUEUED), DocStage(FCF)>>),
      JList(<<DocStage(FCF), JNum(200)>>), JList(<<DocEmpty, JNum(200)>>),
      JList(<<DocStage(QUEUED), JNum(200)>>),
      JList(<<JList(<<DocStage(FCF)>>), JNum(200)>>),
      None }

\* An HTTP response: whether its content type is JSON, its status, its body.
Response(json, status, content) ==
    [json |-> json, status |-> status, content |-> content]

Responses ==
    { Response(TRUE, 200, b) : b \in Bodies } \cup
    { Response(TRUE, 403, b) : b \in {DocStage(QUEUED), DocStage(FCF), DocError} } \cup
    { Response(TRUE, 404, DocError), Response(TRUE, 500, DocEmpty),
      Response(FALSE, 200, None), Response(FALSE, 502, None) }

\* What the service answers a submission with when it accepts the job.
DocModelId == JDict(<< <<"model_id", "m1">> >>)

\* The explored answers to a job submission (POST).
SubmitResponses ==
    { Response(TRUE, 200, DocModelId),
      Response(TRUE, 200, JList(<<DocModelId, JNum(200)>>)),
      Response(TRUE, 403, DocError), Response(TRUE, 404, DocError),
      Response(TRUE, 500, DocEmpty), Response(FALSE, 502, None) }

\* The explored answers to a search (GET /anything): the matches, or the
\* service's 404 when nothing matches.
FindResponses ==
    { Response(TRUE, 200, JList(<<DocNoStage2>>)),
      Response(TRUE, 200, JList(<<DocNoStage2, DocNoStage2>>)),
      Response(TRUE, 404, DocError),
      Response(TRUE, 500, DocEmpty), Response(FALSE, 404, None) }

\* ------------------------------------------------------- Python primitives

\* The result of evaluating a Python expression: a value, or an exception.
Value(v)  == [raised |-> FALSE, v |-> v, w |-> None]
Pair(v, w) == [raised |-> FALSE, v |-> v, w |-> w]
Raise     == [raised |-> TRUE, v |-> None, w |-> None]

\* An exception with the text the code gives it.
RaiseWith(message) == [raised |-> TRUE, v |-> JStr(message), w |-> None]

\* `key in s` for two strings (substring test).  The only strings the clients
\* test are the keys of the documents above, none of which contains another.
str_contains(key, s) == key = s

\* `key in x`: key lookup on a dict, element membership on a list, substring
\* on a str, TypeError on anything that is not iterable.
py_in(key, x) ==
    CASE x.t = "dict" -> Value(JBool(\E i \in DOMAIN x.kv : x.kv[i][1] = key))
      [] x.t = "list" -> Value(JBool(\E i \in DOMAIN x.items : x.items[i] = JStr(key)))
      [] x.t = "str"  -> Value(JBool(str_contains(key, x.s)))
      [] OTHER        -> Raise

\* `x[key]` for a string key: the value on a dict that has the key, otherwise
\* KeyError (dict) or TypeError (list, str, ...).
py_getitem(x, key) ==
    IF x.t = "dict" /\ \E i \in DOMAIN x.kv : x.kv[i][1] = key
    THEN Value(JStr(x.kv[CHOOSE i \in DOMAIN x.kv : x.kv[i][1] = key][2]))
    ELSE Raise

\* `a, b = x`: iterates x (the keys of a dict, the items of a list) and needs
\* exactly two elements; ValueError otherwise, TypeError if x is not iterable.
py_unpack2(x) ==
    CASE x.t = "dict" /\ Len(x.kv) = 2    -> Pair(JStr(x.kv[1][1]), JStr(x.kv[2][1]))
      [] x.t = "list" /\ Len(x.items) = 2 -> Pair(x.items[1], x.items[2])
      [] OTHER                            -> Raise

\* `x[0]`: the first item of a non-empty list; KeyError on a dict (the keys of
\* a JSON object are strings), IndexError on [], TypeError on None.  No
\* explored body is a string or a number.
py_getitem0(x) ==
    IF x.t = "list" /\ x.items # <<>> THEN Value(x.items[1])
    ELSE RaiseWith(CASE x.t = "dict" -> "KeyError"
                     [] x.t = "list" -> "IndexError"
                     [] OTHER        -> "TypeError")

\* `isinstance(res, list) and len(res) == 1`
is_single_list(res) == res.t = "list" /\ Len(res.items) = 1

\* --------------------------------------------------------------- transport

\* The exceptions of send_request, by the text they start with.
ContentTypeError == "Unexpected response content type"
UnexpectedError  == "Unexpected response"
ApiError         == "code: message"

\* `"code" in content and "message" in content`
has_code_and_message(content) ==
    LET c == py_in("code", content)
        m == py_in("message", content)
    IN IF c.raised THEN Raise
       ELSE IF c.v = JBool(FALSE) THEN Value(JBool(FALSE))
       ELSE m

\* raise Exception(f"{content['code']}: {content['message']}.")
raise_api_error(content) ==
    IF py_getitem(content, "code").raised \/ py_getitem(content, "message").raised
    THEN RaiseWith("KeyError")
    ELSE RaiseWith(ApiError)

\* The failure of the async and sync send_request for a status other than
\* 200 and 403: code and message if the content has both, else "Unexpected
\* response" (TypeError if the content is not a container).
raise_for_status(content) ==
    CASE has_code_and_message(content) = Value(JBool(TRUE))  -> raise_api_error(content)
      [] has_code_and_message(content) = Value(JBool(FALSE)) -> RaiseWith(UnexpectedError)
      [] OTHER                                               -> RaiseWith("TypeError")

\* send_request with the bug "the error envelope is looked for before the
\* status".
send_request_envelope_first(v, resp) ==
    IF ~resp.json THEN RaiseWith(ContentTypeError)
    ELSE IF has_code_and_message(resp.content) = Value(JBool(TRUE))
         THEN raise_api_error(resp.content)
    ELSE IF resp.status \in {200, 403} THEN Value(resp.content)
    ELSE IF v = "root"
         THEN (IF resp.status \in {400, 404} THEN raise_api_error(resp.content)
               ELSE Value(None))
    ELSE raise_for_status(resp.content)

\* send_request: one HTTP round trip, decoded.  All three variants raise when
\* the content type is not JSON and return the content for 200 and 403.  For
\* another status the async and sync variants raise, with the envelope's code
\* and message if the content has both; the root variant raises only for
\* 400/404 and falls off the end of the function (returning None) otherwise.
\* The sync variant returns the bare content (no status alongside).
send_request(v, resp) ==
    IF ~resp.json THEN RaiseWith(ContentTypeError)
    ELSE IF resp.status \in {200, 403} THEN Value(resp.content)
    ELSE IF v = "root"
         THEN (IF resp.status \in {400, 404} THEN raise_api_error(resp.content)
               ELSE Value(None))
    ELSE raise_for_status(resp.content)

\* ------------------------------------------------------------ status fetch

\* get_model (all variants): the decoded response, a one-element list
\* replaced by its element.
get_model(v, resp) ==
    LET r == send_request(v, resp) IN
    IF r.raised THEN r
    ELSE IF is_single_list(r.v) THEN Value(r.v.items[1])
    ELSE Value(r.v)

\* _get_model (sync): unpacks what send_request returned into (res, status),
\* then unwraps a one-element list in res.
_get_model(resp) ==
    LET r == send_request("sync", resp) IN
    IF r.raised THEN r
    ELSE LET u == py_unpack2(r.v) IN
         IF u.raised
         THEN RaiseWith(IF r.v.t \in {"dict", "list"} THEN "ValueError" ELSE "TypeError")
         ELSE IF is_single_list(u.v) THEN Pair(u.v.items[1], u.w)
         ELSE Pair(u.v, u.w)

\* The fetch the polling loop performs: get_model in the root and async
\* clients (no status), _get_model in the sync client.
fetch(v, resp) == IF v = "sync" THEN _get_model(resp) ELSE get_model(v, resp)

\* ----------------------------------------------------------- stage catalog

\* _finished_stages of each client class.
_finished_stages(v) ==
    CASE v = "root"  -> [animate |-> TGF]
      [] v = "async" -> [animate |-> [default |-> <<FC, TG, MAF>>,
                                      extra_formats |-> <<FCF>>]]
      [] v = "sync"  -> [animate |-> [default |-> <<TGF, FCF, MAF>>,
                                      extra_formats |-> <<FCF>>],
                         generate |-> [default |-> <<TGF, FCF>>]]

\* "extra_formats" if extra_formats else "default"
required_formats(extra_formats) == IF extra_formats THEN "extra_formats" ELSE "default"

\* stage_matches with the bug "only the first expected stage counts".
stage_matches_first_only(v, model_stage, expected) ==
    IF v = "root" THEN model_stage = expected
    ELSE expected # <<>> /\ expected[1] = model_stage

\* The comparison of a document's stage with what the caller expects: equality
\* with the one expected stage in the root client, membership in the list of
\* expected stages in the async and sync clients.
stage_matches(v, model_stage, expected) ==
    IF v = "root" THEN model_stage = expected
    ELSE \E i \in DOMAIN expected : expected[i] = model_stage

\* ------------------------------------------------------------ polling loop

Decision(next, print) == [next |-> next, print |-> print]

\* `status == 200` on what _get_model handed over as the status.
status_is_200(status) == status.t = "int" /\ status.n = 200

\* poll_decide with the bug "a matching stage ends the loop with a bare
\* `return`": the document is dropped.
poll_decide_bare_return(v, f, expected) ==
    IF f.raised THEN Decision("return_none", "Error")
    ELSE LET has == py_in("stage", f.v) IN
         IF has.raised THEN Decision("raise", "")
         ELSE IF has.v = JBool(TRUE)
         THEN LET model_stage == py_getitem(f.v, "stage") IN
              IF model_stage.raised THEN Decision("raise", "")
              ELSE IF stage_matches(v, model_stage.v.s, expected)
                   THEN Decision("return_none", "Done")
                   ELSE Decision("sleep", "")
         ELSE IF v = "sync" /\ status_is_200(f.w) THEN Decision("return_doc", "")
         ELSE Decision("sleep", "NotReady")

\* poll_decide with the bug "a stage that is not expected ends the loop".
poll_decide_gives_up(v, f, expected) ==
    IF f.raised THEN Decision("return_none", "Error")
    ELSE LET has == py_in("stage", f.v) IN
         IF has.raised THEN Decision("raise", "")
         ELSE IF has.v = JBool(TRUE)
         THEN LET model_stage == py_getitem(f.v, "stage") IN
              IF model_stage.raised THEN Decision("raise", "")
              ELSE IF stage_matches(v, model_stage.v.s, expected)
                   THEN Decision("return_doc", "Done")
                   ELSE Decision("return_none", "")
         ELSE IF v = "sync" /\ status_is_200(f.w) THEN Decision("return_doc", "")
         ELSE Decision("sleep", "NotReady")

\* poll_decide with the bug "a failed fetch is retried after the sleep".
poll_decide_retries(v, f, expected) ==
    IF f.raised THEN Decision("sleep", "Error")
    ELSE LET has == py_in("stage", f.v) IN
         IF has.raised THEN Decision("raise", "")
         ELSE IF has.v = JBool(TRUE)
         THEN LET model_stage == py_getitem(f.v, "stage") IN
              IF model_stage.raised THEN Decision("raise", "")
              ELSE IF stage_matches(v, model_stage.v.s, expected)
                   THEN Decision("return_doc", "Done")
                   ELSE Decision("sleep", "")
         ELSE IF v = "sync" /\ status_is_200(f.w) THEN Decision("return_doc", "")
         ELSE Decision("sleep", "NotReady")

\* poll_decide with the bug "the sync client returns a value without a stage
\* whatever its status".
poll_decide_ignores_status(v, f, expected) ==
    IF f.raised THEN Decision("return_none", "Error")
    ELSE LET has == py_in("stage", f.v) IN
         IF has.raised THEN Decision("raise", "")
         ELSE IF has.v = JBool(TRUE)
         THEN LET model_stage == py_getitem(f.v, "stage") IN
              IF model_stage.raised THEN Decision("raise", "")
              ELSE IF stage_matches(v, model_stage.v.s, expected)
                   THEN Decision("return_doc", "Done")
                   ELSE Decision("sleep", "")
         ELSE IF v = "sync" THEN Decision("return_doc", "")
         ELSE Decision("sleep", "NotReady")

\* poll_decide with the bug "the handler of a failed fetch re-raises".
poll_decide_reraises(v, f, expected) ==
    IF f.raised THEN Decision("raise", "Error")
    ELSE LET has == py_in("stage", f.v) IN
         IF has.raised THEN Decision("raise", "")
         ELSE IF has.v = JBool(TRUE)
         THEN LET model_stage == py_getitem(f.v, "stage") IN
              IF model_stage.raised THEN Decision("raise", "")
              ELSE IF stage_matches(v, model_stage.v.s, expected)
                   THEN Decision("return_doc", "Done")
                   ELSE Decision("sleep", "")
         ELSE IF v = "sync" /\ status_is_200(f.w) THEN Decision("return_doc", "")
         ELSE Decision("sleep", "NotReady")

\* poll_decide with the bug "a document without a stage ends the loop in every
\* client".
poll_decide_absent_ends(v, f, expected) ==
    IF f.raised THEN Decision("return_none", "Error")
    ELSE LET has == py_in("stage", f.v) IN
         IF has.raised THEN Decision("raise", "")
         ELSE IF has.v = JBool(TRUE)
         THEN LET model_stage == py_getitem(f.v, "stage") IN
              IF model_stage.raised THEN Decision("raise", "")
              ELSE IF stage_matches(v, model_stage.v.s, expected)
                   THEN Decision("return_doc", "Done")
                   ELSE Decision("sleep", "")
         ELSE IF v = "sync" /\ status_is_200(f.w) THEN Decision("return_doc", "")
         ELSE Decision("return_none", "NotReady")

\* poll_decide with the bug "an expected stage does not end the loop".
poll_decide_keeps_polling(v, f, expected) ==
    IF f.raised THEN Decision("return_none", "Error")
    ELSE LET has == py_in("stage", f.v) IN
         IF has.raised THEN Decision("raise", "")
         ELSE IF has.v = JBool(TRUE)
         THEN LET model_stage == py_getitem(f.v, "stage") IN
              IF model_stage.raised THEN Decision("raise", "")
              ELSE IF stage_matches(v, model_stage.v.s, expected)
                   THEN Decision("sleep", "Done")
                   ELSE Decision("sleep", "")
         ELSE IF v = "sync" /\ status_is_200(f.w) THEN Decision("return_doc", "")
         ELSE Decision("sleep", "NotReady")

\* One iteration of the loop of get_model_by_polling / _get_model_by_polling,
\* from the fetch result f to what the loop does next:
\*   "return_none" : the fetch raised, the loop returns without a value
\*   "return_doc"  : the loop returns model_json
\*   "sleep"       : the loop sleeps waiting_time and iterates
\*   "raise"       : inspecting model_json raised (it is no mapping)
\* and the diagnostic it prints when verbose.
poll_decide(v, f, expected) ==
    IF f.raised THEN Decision("return_none", "Error")
    ELSE LET has == py_in("stage", f.v) IN
         IF has.raised THEN Decision("raise", "")
         ELSE IF has.v = JBool(TRUE)
         THEN LET model_stage == py_getitem(f.v, "stage") IN
              IF model_stage.raised THEN Decision("raise", "")
              ELSE IF stage_matches(v, model_stage.v.s, expected)
                   THEN Decision("return_doc", "Done")
                   ELSE Decision("sleep", "")
         ELSE IF v = "sync" /\ status_is_200(f.w) THEN Decision("return_doc", "")
         ELSE Decision("sleep", "NotReady")

\* ------------------------------------------------------- single-shot check

Checked(raised, done, fetches) == [raised |-> raised, done |-> done, fetches |-> fetches]

\* _is_model_done with the bug "a format the endpoint lacks falls back to
\* its default entry".
_is_model_done_falls_back(v, endpoint, extra_formats, resp) ==
    LET cat == _finished_stages(v)
        res == get_model(v, resp)
        has == py_in("stage", res.v)
    IN
    IF v = "root"
    THEN IF res.raised \/ has.raised THEN Checked(TRUE, FALSE, 1)
         ELSE IF has.v = JBool(FALSE) THEN Checked(FALSE, FALSE, 1)
         ELSE LET model_stage == py_getitem(res.v, "stage") IN
              IF model_stage.raised \/ endpoint \notin DOMAIN cat
              THEN Checked(TRUE, FALSE, 1)
              ELSE Checked(FALSE, stage_matches(v, model_stage.v.s, cat[endpoint]), 1)
    ELSE IF endpoint \notin DOMAIN cat THEN Checked(TRUE, FALSE, 0)
    ELSE LET fmt == IF required_formats(extra_formats) \in DOMAIN cat[endpoint]
                    THEN required_formats(extra_formats) ELSE "default"
         IN
         IF res.raised \/ has.raised THEN Checked(TRUE, FALSE, 1)
         ELSE IF has.v = JBool(FALSE) THEN Checked(FALSE, FALSE, 1)
         ELSE LET model_stage == py_getitem(res.v, "stage") IN
              IF model_stage.raised THEN Checked(TRUE, FALSE, 1)
              ELSE Checked(FALSE, stage_matches(v, model_stage.v.s, cat[endpoint][fmt]), 1)

\* _is_model_done with the bug "a document without a stage counts as done".
_is_model_done_absent_is_done(v, endpoint, extra_formats, resp) ==
    LET cat == _finished_stages(v)
        res == get_model(v, resp)
        has == py_in("stage", res.v)
    IN
    IF v = "root"
    THEN IF res.raised \/ has.raised THEN Checked(TRUE, FALSE, 1)
         ELSE IF has.v = JBool(FALSE) THEN Checked(FALSE, TRUE, 1)
         ELSE LET model_stage == py_getitem(res.v, "stage") IN
              IF model_stage.raised \/ endpoint \notin DOMAIN cat
              THEN Checked(TRUE, FALSE, 1)
              ELSE Checked(FALSE, stage_matches(v, model_stage.v.s, cat[endpoint]), 1)
    ELSE IF endpoint \notin DOMAIN cat THEN Checked(TRUE, FALSE, 0)
    ELSE IF required_formats(extra_formats) \notin DOMAIN cat[endpoint]
         THEN Checked(TRUE, FALSE, 0)
    ELSE IF res.raised \/ has.raised THEN Checked(TRUE, FALSE, 1)
    ELSE IF has.v = JBool(FALSE) THEN Checked(FALSE, TRUE, 1)
    ELSE LET model_stage == py_getitem(res.v, "stage") IN
         IF model_stage.raised THEN Checked(TRUE, FALSE, 1)
         ELSE Checked(FALSE,
                      stage_matches(v, model_stage.v.s,
                                    cat[endpoint][required_formats(extra_formats)]),
                      1)

\* _is_model_done with the bug "a failed fetch is caught and reported as
\* not done", as the polling loop catches it.
_is_model_done_catches_fetch(v, endpoint, extra_formats, resp) ==
    LET cat == _finished_stages(v)
        res == get_model(v, resp)
        has == py_in("stage", res.v)
    IN
    IF v = "root"
    THEN IF res.raised THEN Checked(FALSE, FALSE, 1)
         ELSE IF has.raised THEN Checked(TRUE, FALSE, 1)
         ELSE IF has.v = JBool(FALSE) THEN Checked(FALSE, FALSE, 1)
         ELSE LET model_stage == py_getitem(res.v, "stage") IN
              IF model_stage.raised \/ endpoint \notin DOMAIN cat
              THEN Checked(TRUE, FALSE, 1)
              ELSE Checked(FALSE, stage_matches(v, model_stage.v.s, cat[endpoint]), 1)
    ELSE IF endpoint \notin DOMAIN cat THEN Checked(TRUE, FALSE, 0)
    ELSE IF required_formats(extra_formats) \notin DOMAIN cat[endpoint]
         THEN Checked(TRUE, FALSE, 0)
    ELSE IF res.raised THEN Checked(FALSE, FALSE, 1)
    ELSE IF has.raised THEN Checked(TRUE, FALSE, 1)
    ELSE IF has.v = JBool(FALSE) THEN Checked(FALSE, FALSE, 1)
    ELSE LET model_stage == py_getitem(res.v, "stage") IN
         IF model_stage.raised THEN Checked(TRUE, FALSE, 1)
         ELSE Checked(FALSE,
                      stage_matches(v, model_stage.v.s,
                                    cat[endpoint][required_formats(extra_formats)]),
                      1)

\* _is_model_done.  The async and sync clients resolve the catalog entry first
\* (KeyError for an endpoint or a format the catalog lacks) and then fetch
\* once; the root client fetches first and looks the endpoint up only when the
\* document has a stage.
_is_model_done(v, endpoint, extra_formats, resp) ==
    LET cat == _finished_stages(v)
        res == get_model(v, resp)
        has == py_in("stage", res.v)
    IN
    IF v = "root"
    THEN IF res.raised \/ has.raised THEN Checked(TRUE, FALSE, 1)
         ELSE IF has.v = JBool(FALSE) THEN Checked(FALSE, FALSE, 1)
         ELSE LET model_stage == py_getitem(res.v, "stage") IN
              IF model_stage.raised \/ endpoint \notin DOMAIN cat
              THEN Checked(TRUE, FALSE, 1)
              ELSE Checked(FALSE, stage_matches(v, model_stage.v.s, cat[endpoint]), 1)
    ELSE IF endpoint \notin DOMAIN cat THEN Checked(TRUE, FALSE, 0)
    ELSE IF required_formats(extra_formats) \notin DOMAIN cat[endpoint]
         THEN Checked(TRUE, FALSE, 0)
    ELSE IF res.raised \/ has.raised THEN Checked(TRUE, FALSE, 1)
    ELSE IF has.v = JBool(FALSE) THEN Checked(FALSE, FALSE, 1)
    ELSE LET model_stage == py_getitem(res.v, "stage") IN
         IF model_stage.raised THEN Checked(TRUE, FALSE, 1)
         ELSE Checked(FALSE,
                      stage_matches(v, model_stage.v.s,
                                    cat[endpoint][required_formats(extra_formats)]),
                      1)

\* ------------------------------------------------------------------- state

Variants == {"root", "async", "sync"}

\* Values the callers pass for waiting_time and warmup_time (seconds);
\* 5 and 0 are the defaults of the signatures.
WaitingTimes == {1, 5}
WarmupTimes  == {0, 2}

VARIABLES
    variant,          \* the client class of this client object
    entry,            \* the public method of the call in progress ("" if none)
    pc,               \* "idle", "warmup", "fetch", "sleep", "done"
    endpoint,         \* the job kind the call is about ("" if none is named)
    formats,          \* "default", "extra_formats" ("" if none is named)
    expected_stages,  \* expected_stage (root) / expected_stages of the polling call
    waiting_time,
    warmup_time,
    verbose,
    attempt_count,    \* the loop's local counter
    last_resp,        \* the service's response to the last request of this call
    model_json,       \* what the last fetch returned (None before / on failure)
    status,           \* sync: the status _get_model returned with it
    outcome,          \* "pending", "returned", "raised"
    result,           \* the value returned (None: returned without a value)
    seen,             \* per fetch of this call: what the loop observed (see Observed)
    n_sleep,          \* waiting_time sleeps of this call
    n_warmup,         \* warmup_time sleeps of this call
    fetch_after,      \* per fetch: <<warmup sleeps, interval sleeps>> that preceded it
    elapsed,          \* seconds this call has slept
    out,              \* diagnostics printed by this call: <<attempt, kind>>
    sent,             \* HTTP requests of this call: <<method, url>>
    polled_before,    \* a polling call that fetched has ended on this client object
    client,           \* the fields of the client object and its class's stage catalog
    tasks,            \* per job id: the frame of a polling sequence run concurrently
    twin,             \* per value of verbose: the frame of one and the same polling call
    service,          \* the job on the service: "working", or "finished" for good
    flow,             \* the frame of a generate_animated_from_text / _image call
    wire              \* the environment and the HTTP request of the client in flight

vars == <<variant, entry, pc, endpoint, formats, expected_stages, waiting_time, warmup_time,
          verbose, attempt_count, last_resp, model_json, status, outcome, result,
          seen, n_sleep, n_warmup, fetch_after, elapsed, out, sent, polled_before, client, tasks,
          twin, service, flow, wire>>

\* The url a polling method hands to the loop: get_generated_model polls
\* generated_polling_url, every other method polling_url.
polling_url_of(name) ==
    IF name = "get_generated_model" THEN "generated_polling_url" ELSE "polling_url"

\* No request made yet.
NoResponse == Response(FALSE, 0, None)

\* What a fetch result looks like to the code that inspects it: "<error>" when
\* the fetch raised, the stage when it is a mapping with a "stage",
\* "<absent>" when `"stage" in model_json` is false, "<no mapping>" when
\* inspecting it raises.
Observed(f) ==
    IF f.raised THEN "<error>"
    ELSE IF py_in("stage", f.v).raised THEN "<no mapping>"
    ELSE IF py_in("stage", f.v).v = JBool(FALSE) THEN "<absent>"
    ELSE IF py_getitem(f.v, "stage").raised THEN "<no mapping>"
    ELSE py_getitem(f.v, "stage").v.s

\* The state in which no call is in progress.
Idle ==
    /\ entry = ""
    /\ pc = "idle"
    /\ endpoint = ""
    /\ formats = ""
    /\ expected_stages = <<>>
    /\ waiting_time = 0
    /\ warmup_time = 0
    /\ verbose = FALSE
    /\ attempt_count = 0
    /\ last_resp = NoResponse
    /\ model_json = None
    /\ status = None
    /\ outcome = "pending"
    /\ result = None
    /\ seen = <<>>
    /\ n_sleep = 0
    /\ n_warmup = 0
    /\ fetch_after = <<>>
    /\ elapsed = 0
    /\ out = <<>>
    /\ sent = <<>>

\* __init__: the fields of a new client object (AW_MODE unset, so is_staging
\* is False; the root client has neither is_staging nor generated_polling_url),
\* with the stage catalog of its class.
AWClient(v) ==
    [api_key |-> "api_key", api_url |-> "api_url", polling_url |-> "polling_url",
     generated_polling_url |-> IF v = "sync" THEN "generated_polling_url" ELSE "",
     is_staging |-> FALSE,
     _finished_stages |-> _finished_stages(v)]

\* The job ids of the polling sequences that run concurrently.
JobIds == {"m1", "m2"}

\* The frame of a polling sequence that has not been started: the locals of
\* the loop, the answers its fetches got, and per fetch the interval sleeps
\* the sequence had completed when the fetch started and when it ended.
NewTask ==
    [pc |-> "idle", formats |-> "", attempt_count |-> 0, n_sleep |-> 0,
     got |-> <<>>, outcome |-> "pending", result |-> None,
     started |-> <<>>, ended |-> <<>>]

\* The frame of a polling call, made with the given verbose, that has not been
\* started.
NewRun(vb) ==
    [pc |-> "idle", expected_stages |-> <<>>, waiting_time |-> 0, warmup_time |-> 0,
     verbose |-> vb, attempt_count |-> 0, n_sleep |-> 0, n_warmup |-> 0, elapsed |-> 0,
     outcome |-> "pending", result |-> None, out |-> <<>>]

\* The frame of a generate_animated_from_text / _image call that has not been
\* started: its position, the steps it has started, the requests it has
\* posted, its local `res`, what the generation poll gave, the temporary
\* folders it has created, and how it ended.
NewFlow ==
    [entry |-> "", pc |-> "idle", phase |-> "", steps |-> <<>>, posts |-> <<>>,
     res |-> None, generated |-> None, attempt_count |-> 0, n_sleep |-> 0,
     folders |-> 0, outcome |-> "pending", error |-> "", result |-> None]

\* No request in flight, AW_MODE unset: the environment variable, the position
\* of the request, the method that sent it, its query parameters, its
\* request_timeout, the time waited for the answer, the content-type header
\* and the status of the answer, and how the request ended.
NewWire ==
    [AW_MODE |-> "", pc |-> "idle", entry |-> "", method |-> "", params |-> {},
     request_timeout |-> 0, waited |-> 0, answered |-> FALSE, content_type |-> <<>>,
     status |-> 0, outcome |-> "pending", result |-> None]

Init ==
    /\ variant \in Variants
    /\ Idle
    /\ polled_before = FALSE
    /\ client = AWClient(variant)
    /\ tasks = [id \in JobIds |-> NewTask]
    /\ twin = [vb \in BOOLEAN |-> NewRun(vb)]
    /\ service = "working"
    /\ flow = NewFlow
    /\ wire = NewWire

\* StartPolling with the bug "the warmup sleep is not guarded by
\* warmup_time > 0".
StartPolling_always_sleeps(name, kind, fmt, expected, wt, wu, vb) ==
    /\ UNCHANGED <<polled_before, client, tasks, twin, service, flow, wire>>
    /\ pc = "idle"
    /\ entry' = name
    /\ endpoint' = kind
    /\ formats' = fmt
    /\ expected_stages' = expected
    /\ waiting_time' = wt
    /\ warmup_time' = wu
    /\ verbose' = vb
    /\ pc' = "warmup"
    /\ attempt_count' = 0
    /\ UNCHANGED <<variant, last_resp, model_json, status, outcome, result, seen,
                   n_sleep, n_warmup, fetch_after, elapsed, out, sent>>

\* Entry of get_model_by_polling / _get_model_by_polling up to its first
\* suspension: the warmup sleep when warmup_time > 0, else the first fetch.
StartPolling(name, kind, fmt, expected, wt, wu, vb) ==
    /\ UNCHANGED <<polled_before, client, tasks, twin, service, flow, wire>>
    /\ pc = "idle"
    /\ entry' = name
    /\ endpoint' = kind
    /\ formats' = fmt
    /\ expected_stages' = expected
    /\ waiting_time' = wt
    /\ warmup_time' = wu
    /\ verbose' = vb
    /\ pc' = IF wu > 0 THEN "warmup" ELSE "fetch"
    /\ attempt_count' = 0
    /\ UNCHANGED <<variant, last_resp, model_json, status, outcome, result, seen,
                   n_sleep, n_warmup, fetch_after, elapsed, out, sent>>

\* get_animated_model: resolves the catalog entry of "animate" and polls.  The
\* root method has neither extra_formats nor warmup_time.
get_animated_model ==
    \E extra_formats \in BOOLEAN, wt \in WaitingTimes, wu \in WarmupTimes,
       vb \in BOOLEAN :
       /\ variant = "root" => (~extra_formats /\ wu = 0)
       /\ StartPolling("get_animated_model", "animate",
                       IF variant = "root" THEN "" ELSE required_formats(extra_formats),
                       IF variant = "root"
                       THEN _finished_stages(variant)["animate"]
                       ELSE _finished_stages(variant)["animate"][required_formats(extra_formats)],
                       wt, wu, vb)

\* get_generated_model (sync client only): polls for ("generate", "default").
get_generated_model ==
    /\ variant = "sync"
    /\ \E wt \in WaitingTimes, wu \in WarmupTimes, vb \in BOOLEAN :
          StartPolling("get_generated_model", "generate", "default",
                       _finished_stages(variant)["generate"]["default"], wt, wu, vb)

\* get_model_by_polling (root client, public): polls for a stage the caller names.
get_model_by_polling ==
    /\ variant = "root"
    /\ \E expected_stage \in {TGF, FCF}, wt \in WaitingTimes, wu \in WarmupTimes,
          vb \in BOOLEAN :
          StartPolling("get_model_by_polling", "", "", expected_stage, wt, wu, vb)

\* The sleep of warmup_time before the loop.
warmup_sleep ==
    /\ UNCHANGED <<polled_before, client, tasks, twin, service, flow, wire>>
    /\ pc = "warmup"
    /\ pc' = "fetch"
    /\ n_warmup' = n_warmup + 1
    /\ elapsed' = elapsed + warmup_time
    /\ UNCHANGED <<variant, entry, endpoint, formats, expected_stages, waiting_time, warmup_time,
                   verbose, attempt_count, last_resp, model_json, status, outcome,
                   result, seen, n_sleep, fetch_after, out, sent>>

\* _get_model_by_polling with the bug "the attempt is counted after the
\* fetch": a fetch that raised is not counted.
_get_model_by_polling_counts_late ==
    /\ UNCHANGED <<polled_before, client, tasks, twin, service, flow, wire>>
    /\ pc = "fetch"
    /\ attempt_count < MaxAttempts
    /\ \E resp \in Responses :
          \E f \in {fetch(variant, resp)} :
          \E d \in {poll_decide(variant, f, expected_stages)} :
          /\ attempt_count' = IF f.raised THEN attempt_count ELSE attempt_count + 1
          /\ last_resp' = resp
          /\ seen' = Append(seen, Observed(f))
          /\ fetch_after' = Append(fetch_after, <<n_warmup, n_sleep>>)
          /\ model_json' = IF f.raised THEN model_json ELSE f.v
          /\ status' = IF f.raised THEN status ELSE f.w
          /\ out' = IF verbose /\ d.print # ""
                    THEN Append(out, <<IF f.raised THEN attempt_count ELSE attempt_count + 1,
                                       d.print>>)
                    ELSE out
          /\ pc' = IF d.next = "sleep" THEN "sleep" ELSE "done"
          /\ outcome' = CASE d.next = "sleep" -> "pending"
                          [] d.next = "raise" -> "raised"
                          [] OTHER            -> "returned"
          /\ result' = IF d.next = "return_doc" THEN f.v ELSE None
          /\ sent' = Append(sent, <<"GET", polling_url_of(entry)>>)
    /\ UNCHANGED <<variant, entry, endpoint, formats, expected_stages, waiting_time, warmup_time,
                   verbose, n_sleep, n_warmup, elapsed>>

\* One iteration of the `while True` loop, from attempt_count += 1 through the
\* fetch and the inspection of its result, up to the return or the sleep.
poll_iteration(resp) ==
    /\ UNCHANGED <<polled_before, client, tasks, twin, service, flow, wire>>
    /\ pc = "fetch"
    /\ \E f \in {fetch(variant, resp)} :
          \E d \in {poll_decide(variant, f, expected_stages)} :
          /\ attempt_count' = attempt_count + 1
          /\ last_resp' = resp
          /\ seen' = Append(seen, Observed(f))
          /\ fetch_after' = Append(fetch_after, <<n_warmup, n_sleep>>)
          /\ model_json' = IF f.raised THEN model_json ELSE f.v
          /\ status' = IF f.raised THEN status ELSE f.w
          /\ out' = IF verbose /\ d.print # ""
                    THEN Append(out, <<attempt_count + 1, d.print>>)
                    ELSE out
          /\ pc' = IF d.next = "sleep" THEN "sleep" ELSE "done"
          /\ outcome' = CASE d.next = "sleep" -> "pending"
                          [] d.next = "raise" -> "raised"
                          [] OTHER            -> "returned"
          /\ result' = IF d.next = "return_doc" THEN f.v ELSE None
          /\ sent' = Append(sent, <<"GET", polling_url_of(entry)>>)
    /\ UNCHANGED <<variant, entry, endpoint, formats, expected_stages, waiting_time, warmup_time,
                   verbose, n_sleep, n_warmup, elapsed>>

\* The loop iterating on whatever the service answers.
_get_model_by_polling ==
    /\ attempt_count < MaxAttempts
    /\ \E resp \in Responses : poll_iteration(resp)

\* The sleep of waiting_time that ends an iteration.
interval_sleep ==
    /\ UNCHANGED <<polled_before, client, tasks, twin, service, flow, wire>>
    /\ pc = "sleep"
    /\ pc' = "fetch"
    /\ n_sleep' = n_sleep + 1
    /\ elapsed' = elapsed + waiting_time
    /\ UNCHANGED <<variant, entry, endpoint, formats, expected_stages, waiting_time, warmup_time,
                   verbose, attempt_count, last_resp, model_json, status, outcome,
                   result, seen, n_warmup, fetch_after, out, sent>>

\* A single-shot check: the whole of _is_model_done, which may fetch once.
Check(name, kind, extra_formats, resp) ==
    /\ UNCHANGED <<polled_before, client, tasks, twin, service, flow, wire>>
    /\ pc = "idle"
    /\ \E c \in {_is_model_done(variant, kind, extra_formats, resp)},
          f \in {get_model(variant, resp)} :
          /\ entry' = name
          /\ endpoint' = kind
          /\ formats' = IF variant = "root" THEN "" ELSE required_formats(extra_formats)
          /\ pc' = "done"
          /\ last_resp' = IF c.fetches = 1 THEN resp ELSE NoResponse
          /\ model_json' = IF c.fetches = 1 /\ ~f.raised THEN f.v ELSE None
          /\ outcome' = IF c.raised THEN "raised" ELSE "returned"
          /\ result' = IF c.raised THEN None ELSE JBool(c.done)
          /\ seen' = IF c.fetches = 1 THEN <<Observed(f)>> ELSE <<>>
          /\ fetch_after' = IF c.fetches = 1 THEN << <<0, 0>> >> ELSE <<>>
          /\ sent' = IF c.fetches = 1 THEN << <<"GET", "polling_url">> >> ELSE <<>>
    /\ UNCHANGED <<variant, expected_stages, waiting_time, warmup_time, verbose,
                   attempt_count, status, n_sleep, n_warmup, elapsed, out>>

\* is_animation_done: _is_model_done for "animate" (the root method has no
\* extra_formats).
is_animation_done ==
    \E extra_formats \in BOOLEAN, resp \in Responses :
       /\ variant = "root" => ~extra_formats
       /\ Check("is_animation_done", "animate", extra_formats, resp)

\* _is_model_done called with another endpoint name.
is_model_done_of_endpoint ==
    \E kind \in {"generate", "rig"}, extra_formats \in BOOLEAN, resp \in Responses :
       /\ variant = "root" => ~extra_formats
       /\ Check("_is_model_done", kind, extra_formats, resp)

\* OneRequest with the bug "a request that failed is sent a second time".
OneRequest_sends_again(name, method, url, resp, r) ==
    /\ UNCHANGED <<polled_before, client, tasks, twin, service, flow, wire>>
    /\ pc = "idle"
    /\ entry' = name
    /\ pc' = "done"
    /\ last_resp' = resp
    /\ \E x \in {r} :
          /\ sent' = IF x.raised THEN << <<method, url>>, <<method, url>> >>
                      ELSE << <<method, url>> >>
          /\ outcome' = IF x.raised THEN "raised" ELSE "returned"
          /\ result' = IF x.raised THEN None ELSE x.v
    /\ UNCHANGED <<variant, endpoint, formats, expected_stages, waiting_time, warmup_time,
                   verbose, attempt_count, model_json, status, seen, n_sleep, n_warmup,
                   fetch_after, elapsed, out>>

\* A method that is one request: the request is sent, and r (what the method
\* makes of the response) is returned or raised.
OneRequest(name, method, url, resp, r) ==
    /\ UNCHANGED <<polled_before, client, tasks, twin, service, flow, wire>>
    /\ pc = "idle"
    /\ entry' = name
    /\ pc' = "done"
    /\ last_resp' = resp
    /\ sent' = << <<method, url>> >>
    /\ \E x \in {r} :
          /\ outcome' = IF x.raised THEN "raised" ELSE "returned"
          /\ result' = IF x.raised THEN None ELSE x.v
    /\ UNCHANGED <<variant, endpoint, formats, expected_stages, waiting_time, warmup_time,
                   verbose, attempt_count, model_json, status, seen, n_sleep, n_warmup,
                   fetch_after, elapsed, out>>

\* _anything with the bug "every JSON answer is handed back, whatever its
\* status".
_anything_returns_any_json(resp) ==
    IF resp.json THEN Value(resp.content) ELSE send_request(variant, resp)

\* _anything (root: anything): GET /anything, the result of send_request
\* handed back as it is.
_anything(resp) == send_request(variant, resp)

\* find(search_query); in the root client, anything(search_query=...).
find ==
    \E resp \in FindResponses :
       OneRequest("find", "GET", "/anything", resp, _anything(resp))

\* find_by_name(model_name); in the root client, anything(model_name=...).
find_by_name ==
    \E resp \in FindResponses :
       OneRequest("find_by_name", "GET", "/anything", resp, _anything(resp))

\* What a job submitter returns: the result of send_request in the root and
\* async clients, `send_request(...)[0]` in the sync client.
submit(v, resp) ==
    LET r == send_request(v, resp) IN
    IF v # "sync" \/ r.raised THEN r ELSE py_getitem0(r.v)

\* animate: one POST of the files (read from a directory that exists) to
\* /animate (root: /run_all).
animate ==
    \E resp \in SubmitResponses :
       OneRequest("animate", "POST", IF variant = "root" THEN "/run_all" ELSE "/animate",
                  resp, submit(variant, resp))

\* generate_from_text (sync client only): one POST to /text-to-3d.
generate_from_text ==
    /\ variant = "sync"
    /\ \E resp \in SubmitResponses :
          OneRequest("generate_from_text", "POST", "/text-to-3d", resp, submit(variant, resp))

\* generate_from_image (sync client only): one POST of the image (a file that
\* exists) to /image-to-3d.
generate_from_image ==
    /\ variant = "sync"
    /\ \E resp \in SubmitResponses :
          OneRequest("generate_from_image", "POST", "/image-to-3d", resp,
                     submit(variant, resp))

\* The call has ended and its caller has taken the outcome: the client object
\* keeps nothing of it.
return_to_caller ==
    /\ UNCHANGED <<client, tasks, twin, service, flow, wire>>
    /\ polled_before' = (polled_before \/
                          (/\ entry \in {"get_animated_model", "get_generated_model",
                                         "get_model_by_polling"}
                           /\ attempt_count >= 1))
    /\ pc = "done"
    /\ entry' = ""
    /\ pc' = "idle"
    /\ endpoint' = ""
    /\ formats' = ""
    /\ expected_stages' = <<>>
    /\ waiting_time' = 0
    /\ warmup_time' = 0
    /\ verbose' = FALSE
    /\ attempt_count' = 0
    /\ last_resp' = NoResponse
    /\ model_json' = None
    /\ status' = None
    /\ outcome' = "pending"
    /\ result' = None
    /\ seen' = <<>>
    /\ n_sleep' = 0
    /\ n_warmup' = 0
    /\ fetch_after' = <<>>
    /\ elapsed' = 0
    /\ out' = <<>>
    /\ sent' = <<>>
    /\ UNCHANGED variant

Next ==
    \/ get_animated_model
    \/ get_generated_model
    \/ get_model_by_polling
    \/ warmup_sleep
    \/ _get_model_by_polling
    \/ interval_sleep
    \/ is_animation_done
    \/ is_model_done_of_endpoint
    \/ find
    \/ find_by_name
    \/ animate
    \/ generate_from_text
    \/ generate_from_image
    \/ return_to_caller

Spec == Init /\ [][Next]_vars

TypeOK ==
    /\ variant \in Variants
    /\ pc \in {"idle", "warmup", "fetch", "sleep", "done"}
    /\ outcome \in {"pending", "returned", "raised"}
    /\ attempt_count \in 0..MaxAttempts

\* ------------------------------------------- concurrent polling sequences

\* Two calls of get_animated_model on one client object, one per job id, run
\* concurrently (asyncio tasks in the root and async clients, threads in the
\* sync client).  Each call has a frame of local variables; the steps of the
\* two calls interleave at the points where a call is suspended: the warmup
\* sleep, the request in flight, the interval sleep.

\* The answers of the service to the status requests of the two sequences.
PairResponses ==
    { Response(TRUE, 200, DocStage(QUEUED)), Response(TRUE, 200, DocStage(TGF)),
      Response(TRUE, 200, DocStage(FCF)),
      Response(TRUE, 200, JList(<<DocStage(FCF), JNum(200)>>)),
      Response(TRUE, 500, DocEmpty) }

\* The expected stage(s) of a frame: the object of the catalog that
\* get_animated_model handed to the loop.
task_expected(t) ==
    IF variant = "root" THEN client._finished_stages["animate"]
    ELSE client._finished_stages["animate"][t.formats]

\* A step of the sequence of job id: its frame becomes t, nothing else changes.
TaskStep(id, t) ==
    /\ tasks' = [tasks EXCEPT ![id] = t]
    /\ UNCHANGED <<variant, entry, pc, endpoint, formats, expected_stages, waiting_time,
                   warmup_time, verbose, attempt_count, last_resp, model_json, status,
                   outcome, result, seen, n_sleep, n_warmup, fetch_after, elapsed, out,
                   sent, polled_before, client, twin, service, flow, wire>>

\* get_animated_model(id, ...) up to its first suspension.
task_start(id) ==
    /\ tasks[id].pc = "idle"
    /\ \E extra_formats \in BOOLEAN, wu \in WarmupTimes :
          /\ variant = "root" => (~extra_formats /\ wu = 0)
          /\ TaskStep(id, [tasks[id] EXCEPT
                              !.formats = IF variant = "root" THEN ""
                                          ELSE required_formats(extra_formats),
                              !.pc = IF wu > 0 THEN "warmup" ELSE "fetch"])

\* The warmup sleep of a sequence is over.
task_warmup_sleep(id) ==
    /\ tasks[id].pc = "warmup"
    /\ TaskStep(id, [tasks[id] EXCEPT !.pc = "fetch"])

\* task_request with the bug "the attempt counter is kept on the client
\* object": every sequence counts the requests of all of them.
task_request_shared_counter(id) ==
    /\ tasks[id].pc = "fetch"
    /\ tasks[id].attempt_count < MaxPairAttempts
    /\ tasks' = [j \in JobIds |->
                   IF j = id
                   THEN [tasks[j] EXCEPT !.attempt_count = @ + 1, !.pc = "in_flight",
                                         !.started = Append(@, tasks[j].n_sleep)]
                   ELSE [tasks[j] EXCEPT !.attempt_count = @ + 1]]
    /\ UNCHANGED <<variant, entry, pc, endpoint, formats, expected_stages, waiting_time,
                   warmup_time, verbose, attempt_count, last_resp, model_json, status,
                   outcome, result, seen, n_sleep, n_warmup, fetch_after, elapsed, out,
                   sent, polled_before, client, twin, service, flow, wire>>

\* The head of an iteration: attempt_count += 1 and the status request is
\* sent; the sequence is suspended until the answer arrives.
task_request(id) ==
    /\ tasks[id].pc = "fetch"
    /\ tasks[id].attempt_count < MaxPairAttempts
    /\ TaskStep(id, [tasks[id] EXCEPT !.attempt_count = @ + 1, !.pc = "in_flight",
                                      !.started = Append(@, tasks[id].n_sleep)])

\* task_response with the bug "the loop iterates without its sleep".
task_response_no_sleep(id) ==
    /\ tasks[id].pc = "in_flight"
    /\ \E resp \in PairResponses :
          \E f \in {fetch(variant, resp)} :
          \E d \in {poll_decide(variant, f, task_expected(tasks[id]))} :
          TaskStep(id, [tasks[id] EXCEPT
                           !.got = Append(@, resp),
                           !.ended = Append(@, tasks[id].n_sleep),
                           !.pc = IF d.next = "sleep" THEN "fetch" ELSE "done",
                           !.outcome = CASE d.next = "sleep" -> "pending"
                                         [] d.next = "raise" -> "raised"
                                         [] OTHER            -> "returned",
                           !.result = IF d.next = "return_doc" THEN f.v ELSE None])

\* The rest of an iteration: the answer arrives, the fetch returns or raises,
\* and the loop returns or goes to sleep.
task_response(id) ==
    /\ tasks[id].pc = "in_flight"
    /\ \E resp \in PairResponses :
          \E f \in {fetch(variant, resp)} :
          \E d \in {poll_decide(variant, f, task_expected(tasks[id]))} :
          TaskStep(id, [tasks[id] EXCEPT
                           !.got = Append(@, resp),
                           !.ended = Append(@, tasks[id].n_sleep),
                           !.pc = IF d.next = "sleep" THEN "sleep" ELSE "done",
                           !.outcome = CASE d.next = "sleep" -> "pending"
                                         [] d.next = "raise" -> "raised"
                                         [] OTHER            -> "returned",
                           !.result = IF d.next = "return_doc" THEN f.v ELSE None])

\* The interval sleep of a sequence is over.
task_interval_sleep(id) ==
    /\ tasks[id].pc = "sleep"
    /\ TaskStep(id, [tasks[id] EXCEPT !.pc = "fetch", !.n_sleep = @ + 1])

NextPair ==
    \/ \E id \in JobIds : task_start(id)
    \/ \E id \in JobIds : task_warmup_sleep(id)
    \/ \E id \in JobIds : task_request(id)
    \/ \E id \in JobIds : task_response(id)
    \/ \E id \in JobIds : task_interval_sleep(id)

SpecPair == Init /\ [][NextPair]_vars

\* ------------------------------------------------ one call, verbose or not

\* One call of get_animated_model made twice, with verbose = True and with
\* verbose = False, on the same client, arguments and answers of the service:
\* the two frames take every step together.

\* A step of the two frames: nothing else changes.
TwinStep(t) ==
    /\ twin' = t
    /\ UNCHANGED <<variant, entry, pc, endpoint, formats, expected_stages, waiting_time,
                   warmup_time, verbose, attempt_count, last_resp, model_json, status,
                   outcome, result, seen, n_sleep, n_warmup, fetch_after, elapsed, out,
                   sent, polled_before, client, tasks, service, flow, wire>>

\* get_animated_model(...) up to its first suspension.
run_start ==
    /\ \A vb \in BOOLEAN : twin[vb].pc = "idle"
    /\ \E extra_formats \in BOOLEAN, wt \in WaitingTimes, wu \in WarmupTimes :
          /\ variant = "root" => (~extra_formats /\ wu = 0)
          /\ TwinStep([vb \in BOOLEAN |->
                [twin[vb] EXCEPT
                   !.expected_stages =
                       IF variant = "root" THEN _finished_stages(variant)["animate"]
                       ELSE _finished_stages(variant)["animate"]
                                                    [required_formats(extra_formats)],
                   !.waiting_time = wt,
                   !.warmup_time = wu,
                   !.pc = IF wu > 0 THEN "warmup" ELSE "fetch"]])

\* The warmup sleep of a frame.
run_warmup(t) ==
    [t EXCEPT !.pc = "fetch", !.n_warmup = @ + 1, !.elapsed = @ + t.warmup_time]

run_warmup_sleep ==
    /\ \E vb \in BOOLEAN : twin[vb].pc = "warmup"
    /\ TwinStep([vb \in BOOLEAN |->
                    IF twin[vb].pc = "warmup" THEN run_warmup(twin[vb]) ELSE twin[vb]])

\* run_iteration with the bug "the return of the handler of a failed fetch
\* is inside `if verbose:`": without verbose the loop goes on with the value
\* of the fetch before (unbound at the first attempt: the call raises).
run_iteration_returns_if_verbose(t, resp) ==
    LET f == fetch(variant, resp)
        d == IF f.raised /\ ~t.verbose
             THEN (IF t.attempt_count = 0 THEN Decision("raise", "")
                   ELSE Decision("sleep", ""))
             ELSE poll_decide(variant, f, t.expected_stages)
    IN
    [t EXCEPT !.attempt_count = @ + 1,
              !.out = IF t.verbose /\ d.print # ""
                      THEN Append(@, <<t.attempt_count + 1, d.print>>) ELSE @,
              !.pc = IF d.next = "sleep" THEN "sleep" ELSE "done",
              !.outcome = CASE d.next = "sleep" -> "pending"
                            [] d.next = "raise" -> "raised"
                            [] OTHER            -> "returned",
              !.result = IF d.next = "return_doc" THEN f.v ELSE None]

\* One iteration of the loop in a frame, on the answer resp to its fetch.
run_iteration(t, resp) ==
    LET f == fetch(variant, resp)
        d == poll_decide(variant, f, t.expected_stages)
    IN
    [t EXCEPT !.attempt_count = @ + 1,
              !.out = IF t.verbose /\ d.print # ""
                      THEN Append(@, <<t.attempt_count + 1, d.print>>) ELSE @,
              !.pc = IF d.next = "sleep" THEN "sleep" ELSE "done",
              !.outcome = CASE d.next = "sleep" -> "pending"
                            [] d.next = "raise" -> "raised"
                            [] OTHER            -> "returned",
              !.result = IF d.next = "return_doc" THEN f.v ELSE None]

run_fetch ==
    /\ \E vb \in BOOLEAN : twin[vb].pc = "fetch" /\ twin[vb].attempt_count < MaxAttempts
    /\ \E resp \in Responses :
          TwinStep([vb \in BOOLEAN |->
                      IF twin[vb].pc = "fetch" /\ twin[vb].attempt_count < MaxAttempts
                      THEN run_iteration(twin[vb], resp) ELSE twin[vb]])

\* The interval sleep of a frame.
run_interval(t) ==
    [t EXCEPT !.pc = "fetch", !.n_sleep = @ + 1, !.elapsed = @ + t.waiting_time]

run_interval_sleep ==
    /\ \E vb \in BOOLEAN : twin[vb].pc = "sleep"
    /\ TwinStep([vb \in BOOLEAN |->
                    IF twin[vb].pc = "sleep" THEN run_interval(twin[vb]) ELSE twin[vb]])

NextTwin ==
    \/ run_start
    \/ run_warmup_sleep
    \/ run_fetch
    \/ run_interval_sleep

SpecTwin == Init /\ [][NextTwin]_vars

\* ------------------------------------------------------------------ claims

Range(q) == { q[i] : i \in DOMAIN q }

\* A polling call / a single-shot check is in progress or has just ended.
Polling  == entry \in {"get_animated_model", "get_generated_model", "get_model_by_polling"}
Checking == entry \in {"is_animation_done", "_is_model_done"}

\* The terminal-stage set the polling call was started with.
Terminal == IF variant = "root" THEN {expected_stages} ELSE Range(expected_stages)

\* What the status fetcher made of the last response of the call.
LastFetch == fetch(variant, last_resp)

\* The last entry of seen ("" before the first fetch).
LastSeen == IF seen = <<>> THEN "" ELSE seen[Len(seen)]

\* The entries of seen that are no stage name.
NoStage == {"", "<error>", "<absent>", "<no mapping>"}

\* x is a mapping whose "stage" is one of S.
DocHasStageIn(x, S) ==
    /\ x.t = "dict"
    /\ \E i \in DOMAIN x.kv : x.kv[i][1] = "stage" /\ x.kv[i][2] \in S

\* x is a mapping without "stage".
DocWithoutStage(x) ==
    /\ x.t = "dict"
    /\ \A i \in DOMAIN x.kv : x.kv[i][1] # "stage"

\* The loop is still running: at its sleep or about to fetch again.
LoopPending == outcome = "pending" /\ pc \in {"sleep", "fetch"}

\* Once a call has ended, the only thing that follows is its caller taking the
\* outcome: nothing more is fetched.
NoFetchAfterEnd == pc = "done" => (pc' = "idle" /\ seen' = <<>>)

\* C1 - The polling loop returns at the first fetch whose document has a
\* "stage" in the terminal set: the call has ended, the value returned is the
\* very document that fetch produced, no earlier fetch of the call showed a
\* terminal stage, exactly attempt_count fetches were made, and no fetch
\* follows the return.
C1_AtTerminalFetch ==
    (/\ Polling
     /\ attempt_count >= 1
     /\ ~LastFetch.raised
     /\ DocHasStageIn(LastFetch.v, Terminal))
    => /\ pc = "done"
       /\ outcome = "returned"
       /\ result = LastFetch.v
       /\ Len(seen) = attempt_count
       /\ \A i \in 1..(Len(seen) - 1) : seen[i] \notin Terminal

C1_ReturnsFirstTerminalDocument ==
    [](C1_AtTerminalFetch) /\ [][NoFetchAfterEnd]_vars

C1_Witness ==
    /\ Polling
    /\ attempt_count = 3
    /\ seen = <<QUEUED, QUEUED, FCF>>
    /\ outcome = "returned"
    /\ result = DocStage(FCF)

\* C3 - A fetch that succeeds with a document whose stage is present but not
\* terminal never ends the call: after any number of such fetches the call has
\* neither returned nor failed, it has made exactly one fetch per attempt, and
\* it is at its sleep or at the next fetch (the loop has no attempt limit of
\* its own: the sleep is always followed by the next iteration).
C3_AtNonTerminalFetch ==
    (/\ Polling
     /\ attempt_count >= 1
     /\ LastSeen \notin NoStage
     /\ LastSeen \notin Terminal)
    => /\ LoopPending
       /\ result = None
       /\ Len(seen) = attempt_count
       /\ pc = "sleep" => n_sleep = attempt_count - 1
       /\ pc = "fetch" => n_sleep = attempt_count

C3_SleepLeadsToFetch ==
    (Polling /\ pc = "sleep") => (pc' = "fetch" /\ attempt_count' = attempt_count)

C3_NonTerminalNeverReturns ==
    [](C3_AtNonTerminalFetch) /\ [][C3_SleepLeadsToFetch]_vars

C3_Witness ==
    /\ Polling
    /\ seen = <<QUEUED, QUEUED, QUEUED>>
    /\ pc = "sleep"
    /\ outcome = "pending"

\* C4 - A fetch that fails at attempt k ends the call at attempt k with no
\* document: the call has returned without a value, it made exactly k fetches
\* (one per attempt, the k-1 before it all not ready), and none follows.
C4_AtFailedFetch ==
    (/\ Polling
     /\ attempt_count >= 1
     /\ LastFetch.raised)
    => /\ pc = "done"
       /\ outcome = "returned"
       /\ result = None
       /\ Len(seen) = attempt_count
       /\ n_sleep = attempt_count - 1
       /\ \A i \in 1..(Len(seen) - 1) : seen[i] # "<error>" /\ seen[i] \notin Terminal

C4_FailedFetchEndsPolling ==
    [](C4_AtFailedFetch) /\ [][NoFetchAfterEnd]_vars

C4_Witness ==
    /\ Polling
    /\ attempt_count = 2
    /\ seen = <<QUEUED, "<error>">>
    /\ pc = "done"
    /\ result = None

\* The polling call has returned a value to its caller.
ReturnedValue == Polling /\ pc = "done" /\ outcome = "returned" /\ result # None

C5_FetchErrorPropagates ==
    (Polling /\ attempt_count >= 1 /\ LastFetch.raised) => outcome = "raised"

\* C5 (amended) - A fetch that raises is caught by the polling loop: the call
\* ends with a normal return of no value, having printed the attempt's "Error"
\* diagnostic exactly when verbose; the only errors a polling call raises to
\* its caller come from inspecting a fetched value that is no mapping.
C5_FetchErrorIsSwallowed ==
    /\ (Polling /\ attempt_count >= 1 /\ LastFetch.raised) =>
          /\ outcome = "returned"
          /\ result = None
          /\ verbose => (out # <<>> /\ out[Len(out)] = <<attempt_count, "Error">>)
          /\ ~verbose => out = <<>>
    /\ (Polling /\ outcome = "raised") =>
          /\ ~LastFetch.raised
          /\ LastSeen = "<no mapping>"

C5_Witness ==
    /\ Polling
    /\ ~verbose
    /\ seen = <<"<error>">>
    /\ pc = "done"
    /\ outcome = "returned"
    /\ result = None

\* The counts of a call that returned a value at attempt k: k fetches, k-1
\* interval sleeps, the i-th fetch after i-1 of them, none of the earlier
\* fetches failed or terminal.
CountsAtReturn ==
    /\ Len(seen) = attempt_count
    /\ n_sleep = attempt_count - 1
    /\ \A i \in DOMAIN fetch_after : fetch_after[i][2] = i - 1
    /\ \A i \in 1..(Len(seen) - 1) : seen[i] # "<error>" /\ seen[i] \notin Terminal

C7_WarmupAndFinalDelay ==
    Polling =>
        /\ n_warmup = IF warmup_time > 0 /\ pc # "warmup" THEN 1 ELSE 0
        /\ pc = "warmup" => (attempt_count = 0 /\ seen = <<>>)
        /\ \A i \in DOMAIN fetch_after :
              fetch_after[i][1] = IF warmup_time > 0 THEN 1 ELSE 0
        /\ pc = "done" =>
              /\ n_sleep = attempt_count - 1
              /\ elapsed = n_warmup * warmup_time + (attempt_count - 1) * waiting_time
        /\ (pc = "done" /\ attempt_count = 1) => elapsed = warmup_time

C7_Witness ==
    /\ ReturnedValue
    /\ warmup_time = 2
    /\ waiting_time = 1
    /\ attempt_count = 1
    /\ n_warmup = 1
    /\ fetch_after = << <<1, 0>> >>
    /\ elapsed = 2

\* The last response with its body wrapped in a one-element list.
WrappedResp ==
    Response(last_resp.json, last_resp.status, JList(<<last_resp.content>>))

\* What one loop iteration does on response r: where it goes next, what it
\* returns and what it prints.
PollStep(r) ==
    LET f == fetch(variant, r)
        d == poll_decide(variant, f, expected_stages)
    IN <<d.next, IF d.next = "return_doc" THEN f.v ELSE None, d.print>>

\* C8 - A one-element list response [d] is unwrapped before the stage is
\* inspected: whenever the service answered a polling call or a single-shot
\* check with a JSON object d, the same answer with the body [d] would have
\* made the loop iteration (its next step, its return value, its diagnostic)
\* and the check (its result, its fetch) come out the same.
C8_UnwrapIsTransparent ==
    /\ (Polling /\ attempt_count >= 1 /\ last_resp.content.t = "dict")
          => PollStep(WrappedResp) = PollStep(last_resp)
    /\ (Checking /\ seen # <<>> /\ last_resp.content.t = "dict")
          => _is_model_done(variant, endpoint, formats = "extra_formats", WrappedResp)
             = _is_model_done(variant, endpoint, formats = "extra_formats", last_resp)

\* Stage names of the service.
StageNames == {TGF, FCF, MAF, FC, TG, QUEUED}

\* The catalog entry a call resolves: the one stage name of the kind in the
\* root client, the list for (kind, format) in the async and sync clients.
PairDefined ==
    /\ endpoint \in DOMAIN _finished_stages(variant)
    /\ variant # "root" => formats \in DOMAIN _finished_stages(variant)[endpoint]

CatalogEntry ==
    IF variant = "root" THEN _finished_stages(variant)[endpoint]
    ELSE _finished_stages(variant)[endpoint][formats]

\* C9 (as stated) - In every client the check accepts several stage names: at
\* the default level of "animate" more than one stage counts as done, for the
\* polling loop and for the single-shot check.
C9_SeveralStagesAccepted ==
    ((Polling \/ Checking) /\ endpoint = "animate" /\ formats # "extra_formats")
    => Cardinality({s \in StageNames : stage_matches(variant, s, CatalogEntry)}) > 1

\* C9 (amended) - In the async and sync clients a job counts as done exactly
\* when its stage is a member of the catalog's list for (job kind, detail
\* level), for the polling loop and for the single-shot check, and the default
\* list of "animate" holds several names; in the root client the catalog holds
\* one stage name per job kind and a job counts as done exactly when its
\* stage equals it.
C9_MembershipExceptRoot ==
    /\ (Polling /\ entry # "get_model_by_polling") => expected_stages = CatalogEntry
    /\ (Polling /\ attempt_count >= 1 /\ LastSeen \notin NoStage) =>
          /\ variant # "root" =>
                ((outcome = "returned" /\ result = LastFetch.v)
                    <=> LastSeen \in Range(expected_stages))
          /\ variant = "root" =>
                ((outcome = "returned" /\ result = LastFetch.v)
                    <=> LastSeen = expected_stages)
    /\ (Checking /\ PairDefined /\ LastSeen \notin NoStage) =>
          /\ outcome = "returned"
          /\ variant # "root" => result = JBool(LastSeen \in Range(CatalogEntry))
          /\ variant = "root" => result = JBool(LastSeen = CatalogEntry)
    /\ variant # "root" =>
          Cardinality(Range(_finished_stages(variant)["animate"]["default"])) > 1

C9_Witness ==
    /\ variant = "sync"
    /\ entry = "is_animation_done"
    /\ formats = "default"
    /\ model_json = DocStage(FCF)
    /\ result = JBool(TRUE)

\* C10 - Stage catalog resolution in the clients whose catalog is keyed by
\* (job kind, detail level), the async and the sync client: every kind has a
\* "default" entry and every entry is a non-empty list; a polling call started
\* through the public methods polls for exactly the entry of its pair; and a
\* single-shot check of a pair the catalog does not define ends with an error
\* raised before any fetch, never with a result computed from another entry.
C10_CatalogResolution ==
    /\ \A v \in {"async", "sync"} : \A k \in DOMAIN _finished_stages(v) :
          /\ "default" \in DOMAIN _finished_stages(v)[k]
          /\ \A f \in DOMAIN _finished_stages(v)[k] : _finished_stages(v)[k][f] # <<>>
    /\ (Polling /\ variant # "root") =>
          (PairDefined /\ expected_stages = CatalogEntry /\ expected_stages # <<>>)
    /\ (Checking /\ variant # "root") =>
          /\ ~PairDefined => (/\ outcome = "raised"
                              /\ seen = <<>>
                              /\ last_resp = NoResponse)
          /\ PairDefined => Len(seen) = 1
          /\ outcome = "returned" => PairDefined

C10_Witness ==
    /\ variant = "sync"
    /\ entry = "_is_model_done"
    /\ endpoint = "generate"
    /\ formats = "extra_formats"
    /\ outcome = "raised"
    /\ seen = <<>>

\* The stage names of the catalog entry the call resolved.
CatalogSet == IF variant = "root" THEN {CatalogEntry} ELSE Range(CatalogEntry)

\* What get_model made of the response to the single-shot check.
CheckFetch == get_model(variant, last_resp)

\* C11 - The single-shot check (is_animation_done / _is_model_done of a pair
\* the catalog defines) makes exactly one fetch, never loops and never sleeps,
\* and when it returns it returns True exactly when the fetched document has a
\* "stage" that is in the terminal set of its (job kind, detail level); a
\* fetched document without "stage" always yields False.
C11_SingleShotCheck ==
    (Checking /\ PairDefined) =>
        /\ pc = "done"
        /\ Len(seen) = 1
        /\ attempt_count = 0 /\ n_sleep = 0 /\ n_warmup = 0 /\ elapsed = 0
        /\ outcome = "returned" =>
              /\ ~CheckFetch.raised
              /\ result = JBool(DocHasStageIn(CheckFetch.v, CatalogSet))
        /\ (~CheckFetch.raised
            /\ DocWithoutStage(CheckFetch.v))
              => (outcome = "returned" /\ result = JBool(FALSE))
        /\ (~CheckFetch.raised
            /\ DocHasStageIn(CheckFetch.v, CatalogSet))
              => (outcome = "returned" /\ result = JBool(TRUE))

C11_Witness ==
    /\ entry = "is_animation_done"
    /\ variant = "async"
    /\ formats = "extra_formats"
    /\ last_resp = Response(TRUE, 200, DocEmpty)
    /\ outcome = "returned"
    /\ result = JBool(FALSE)
    /\ Len(seen) = 1

\* What is_animation_done, called with the flag of the polling call in
\* progress, makes of response r.
CheckOn(r) == _is_model_done(variant, "animate", formats = "extra_formats", r)

\* C12 - Polling and the single-shot check agree: whenever get_animated_model
\* has returned a non-empty document, is_animation_done with the same
\* extra_formats, answered by the service with the same response, returns True.
C12_PollingAndCheckAgree ==
    (entry = "get_animated_model" /\ ReturnedValue /\ result # DocEmpty)
    => (~CheckOn(last_resp).raised /\ CheckOn(last_resp).done)

\* A request of the call in progress has been answered.
Answered == last_resp # NoResponse

\* C13 - send_request hands back the decoded payload only for HTTP status 200
\* and 403: on a JSON response with one of these it returns the payload, and
\* on every response with another status it raises, in every client; it never
\* returns normally (with None) for another status.
C13_ReturnsOnlyFor200And403 ==
    Answered =>
        /\ (last_resp.json /\ last_resp.status \in {200, 403}) =>
              send_request(variant, last_resp) = Value(last_resp.content)
        /\ last_resp.status \notin {200, 403} => send_request(variant, last_resp).raised

\* x is a JSON object with both "code" and "message".
IsErrorEnvelope(x) ==
    /\ x.t = "dict"
    /\ \E i \in DOMAIN x.kv : x.kv[i][1] = "code"
    /\ \E i \in DOMAIN x.kv : x.kv[i][1] = "message"

C15_FindRaisesOn404 ==
    (entry \in {"find", "find_by_name"} /\ last_resp.status = 404) =>
        /\ pc = "done"
        /\ outcome = "raised"
        /\ result = None
        /\ sent = << <<"GET", "/anything">> >>

C15_Witness ==
    /\ entry = "find"
    /\ variant = "sync"
    /\ last_resp = Response(TRUE, 404, DocError)
    /\ outcome = "raised"

\* The job submitters.
Submitters == {"animate", "generate_from_text", "generate_from_image"}

\* C16 - When the service answers a submission with HTTP 200 and a JSON object
\* that has "model_id", the sync client's animate, generate_from_text and
\* generate_from_image return that object, so that "model_id" is a key of the
\* value returned.
C16_SyncSubmitReturnsResponse ==
    (/\ variant = "sync" /\ entry \in Submitters
     /\ last_resp.json /\ last_resp.status = 200
     /\ DocWithoutStage(last_resp.content)
     /\ py_in("model_id", last_resp.content) = Value(JBool(TRUE)))
    => /\ outcome = "returned"
       /\ result = last_resp.content
       /\ py_in("model_id", result) = Value(JBool(TRUE))

\* The path a submitter posts to.
SubmitUrl(v, name) ==
    CASE name = "animate"             -> IF v = "root" THEN "/run_all" ELSE "/animate"
      [] name = "generate_from_text"  -> "/text-to-3d"
      [] name = "generate_from_image" -> "/image-to-3d"
      [] OTHER                        -> ""

\* C17 - A call of animate, generate_from_text or generate_from_image makes
\* exactly one HTTP request, a POST to the submitter's own path, whether the
\* call returns or raises: no status fetch, no polling attempt, no sleep and
\* no second request belong to the call, and the step that ends the call is
\* the step that sends the request.
C17_SubmitIsOneRequest ==
    [][(entry' \in Submitters /\ entry' # entry)
       => /\ pc = "idle" /\ pc' = "done"
          /\ sent = <<>>
          /\ sent' = << <<"POST", SubmitUrl(variant, entry')>> >>
          /\ outcome' \in {"returned", "raised"}
          /\ seen' = <<>> /\ fetch_after' = <<>>
          /\ attempt_count' = 0 /\ n_sleep' = 0 /\ n_warmup' = 0]_vars

\* A submission the service refused with a JSON 500: the call raised after its
\* one POST.
C17_Witness ==
    /\ entry \in Submitters /\ pc = "done"
    /\ outcome = "raised"
    /\ last_resp.json /\ last_resp.status = 500
    /\ sent = << <<"POST", SubmitUrl(variant, entry)>> >>

\* The polling loop run on its own, in one go, on the answers rs: how it ends
\* (or "pending" when rs ends before the loop does) and the fetches it made.
RECURSIVE RunAlone(_, _, _, _)
RunAlone(v, expected, rs, k) ==
    IF rs = <<>> THEN [outcome |-> "pending", result |-> None, fetches |-> k]
    ELSE LET f == fetch(v, Head(rs))
             d == poll_decide(v, f, expected)
         IN
         IF d.next = "sleep" THEN RunAlone(v, expected, Tail(rs), k + 1)
         ELSE [outcome |-> IF d.next = "raise" THEN "raised" ELSE "returned",
               result  |-> IF d.next = "return_doc" THEN f.v ELSE None,
               fetches |-> k + 1]

\* The fetches of a sequence that have been answered.
task_fetches(t) == IF t.pc = "in_flight" THEN t.attempt_count - 1 ELSE t.attempt_count

\* C18 - Two polling sequences for different job ids, interleaved in any
\* order, share no mutable state: a step of one sequence leaves the frame of
\* the other (attempt counter, loop position, sleeps, result) as it was, no
\* step writes the stage catalog or a field of the client object, and at every
\* moment each sequence has made the fetches and has the outcome and result
\* that the loop run alone on the same answers has.
C18_SequencesAreIndependent ==
    /\ [](\A id \in JobIds :
            /\ task_fetches(tasks[id]) = Len(tasks[id].got)
            /\ tasks[id].n_sleep \in {Len(tasks[id].got), Len(tasks[id].got) - 1}
            /\ [outcome |-> tasks[id].outcome, result |-> tasks[id].result,
                fetches |-> task_fetches(tasks[id])]
               = RunAlone(variant, task_expected(tasks[id]), tasks[id].got, 0))
    /\ [][/\ client' = client
          /\ \A id \in JobIds :
                tasks'[id] # tasks[id]
                => \A other \in JobIds \ {id} : tasks'[other] = tasks[other]]_vars

\* The sequence of m1 has returned a document at its second fetch while the
\* sequence of m2, started meanwhile, waits for the answer to its first.
C18_Witness ==
    /\ tasks["m1"].pc = "done" /\ tasks["m1"].outcome = "returned"
    /\ tasks["m1"].result # None /\ tasks["m1"].attempt_count = 2
    /\ tasks["m2"].pc = "in_flight" /\ tasks["m2"].attempt_count = 1
    /\ client = AWClient(variant)

\* C19 - Detail-level monotonicity in the async and sync clients: for every
\* job kind of the catalog that has an "extra_formats" entry, its stages are
\* among the stages of "default"; hence an is_animation_done(extra_formats=
\* True) that answered True is answered True with extra_formats=False on the
\* same response, and a get_animated_model(extra_formats=True) that returned
\* a document would have returned at that fetch when polling for "default".
C19_ExtraFormatsWithinDefault ==
    variant \in {"async", "sync"} =>
    /\ \A kind \in DOMAIN _finished_stages(variant) :
          "extra_formats" \in DOMAIN _finished_stages(variant)[kind]
          => Range(_finished_stages(variant)[kind]["extra_formats"])
             \subseteq Range(_finished_stages(variant)[kind]["default"])
    /\ (/\ entry = "is_animation_done" /\ formats = "extra_formats"
        /\ pc = "done" /\ outcome = "returned" /\ result = JBool(TRUE))
       => _is_model_done(variant, "animate", FALSE, last_resp) = Checked(FALSE, TRUE, 1)
    /\ (/\ entry = "get_animated_model" /\ formats = "extra_formats"
        /\ pc = "done" /\ outcome = "returned" /\ result # None)
       => poll_decide(variant, LastFetch,
                      _finished_stages(variant)["animate"]["default"]).next = "return_doc"

\* C20 - Within one polling sequence the fetches are strictly sequential: a
\* fetch starts only when every earlier fetch of the sequence has ended, so at
\* most one is in flight, and between the end of fetch N and the start of
\* fetch N+1 the sequence completes exactly one interval sleep (fetch N ends
\* and fetch N starts with N-1 sleeps completed, fetch N+1 starts with N).
C20_FetchesAreSequential ==
    /\ [](\A id \in JobIds :
            /\ Len(tasks[id].started) = tasks[id].attempt_count
            /\ Len(tasks[id].ended) = Len(tasks[id].got)
            /\ Len(tasks[id].started) - Len(tasks[id].ended)
               = IF tasks[id].pc = "in_flight" THEN 1 ELSE 0
            /\ \A n \in DOMAIN tasks[id].started : tasks[id].started[n] = n - 1
            /\ \A n \in DOMAIN tasks[id].ended : tasks[id].ended[n] = n - 1
            /\ \A n \in DOMAIN tasks[id].started :
                  n > 1 => tasks[id].started[n] = tasks[id].ended[n - 1] + 1)
    /\ [][\A id \in JobIds :
            /\ Len(tasks'[id].started) > Len(tasks[id].started)
               => /\ tasks[id].pc = "fetch"
                  /\ Len(tasks[id].ended) = Len(tasks[id].started)
                  /\ Len(tasks'[id].started) = Len(tasks[id].started) + 1
            /\ tasks'[id].n_sleep # tasks[id].n_sleep
               => /\ tasks[id].pc = "sleep" /\ tasks'[id].pc = "fetch"
                  /\ tasks'[id].n_sleep = tasks[id].n_sleep + 1
                  /\ tasks'[id].started = tasks[id].started
                  /\ tasks'[id].ended = tasks[id].ended]_vars

\* Both sequences have their second fetch in flight, each after one completed
\* interval sleep.
C20_Witness ==
    \A id \in JobIds :
       /\ tasks[id].pc = "in_flight"
       /\ tasks[id].started = <<0, 1>>
       /\ tasks[id].ended = <<0>>
       /\ tasks[id].n_sleep = 1

\* C21 - The attempt counter belongs to one polling call: it is 0 when the
\* call starts, whatever calls the client object served before, becomes 1 at
\* the first fetch and grows by exactly one with every fetch and with nothing
\* else, so it always equals the number of fetches the call has issued; a
\* diagnostic carries the number of the attempt that printed it.
C21_AttemptCounterCountsFetches ==
    /\ [](Polling =>
            /\ attempt_count = Len(seen)
            /\ attempt_count = Len(sent)
            /\ \A i \in DOMAIN out : out[i][1] \in 1..attempt_count
            /\ \A i, j \in DOMAIN out : i < j => out[i][1] < out[j][1])
    /\ [][/\ (entry = "" /\ entry' \in {"get_animated_model", "get_generated_model",
                                        "get_model_by_polling"})
             => (attempt_count' = 0 /\ seen' = <<>> /\ out' = <<>>)
          /\ (Polling /\ Len(seen') = Len(seen) + 1)
             => /\ attempt_count' = attempt_count + 1
                /\ (seen = <<>> => attempt_count' = 1)
                /\ out' # out => (/\ Len(out') = Len(out) + 1
                                  /\ out'[Len(out')][1] = attempt_count')
          /\ (Polling /\ pc # "done" /\ attempt_count' # attempt_count)
             => Len(seen') = Len(seen) + 1]_vars

\* A later polling call on a client object that has polled before: its first
\* attempt is number 1, and so says its diagnostic.
C21_Witness ==
    /\ polled_before
    /\ Polling /\ verbose
    /\ attempt_count = 1
    /\ Len(seen) = 1
    /\ out = << <<1, "NotReady">> >>

\* The attempts of the call after which the loop went on: the fetched document
\* was not ready.
NotReadyAttempts ==
    { i \in DOMAIN seen : (i < Len(seen) \/ LoopPending) /\ seen[i] # "<error>" }

\* C22 - With verbose = true every not-ready attempt, whether its document
\* has no "stage" or has a "stage" outside the terminal set, prints exactly
\* one "not ready yet" diagnostic, which carries the number of that attempt.
C22_NotReadyIsReported ==
    (Polling /\ verbose) =>
       \A i \in NotReadyAttempts :
          Cardinality({ j \in DOMAIN out : out[j] = <<i, "NotReady">> }) = 1

\* C23 - A fetch answered with HTTP 200 and a JSON object, with or without
\* "stage", never makes the polling call take its failure exit (a return
\* without a document); and the sync _get_model hands the loop that object as
\* the document together with the status 200.
C23_ObjectAnswerIsNoFailure ==
    (/\ Polling /\ attempt_count >= 1
     /\ last_resp.json /\ last_resp.status = 200 /\ last_resp.content.t = "dict")
    => /\ ~(pc = "done" /\ outcome = "returned" /\ result = None)
       /\ LastSeen # "<error>"
       /\ variant = "sync" => _get_model(last_resp) = Pair(last_resp.content, JNum(200))

\* A frame without its verbose flag and its diagnostics.
Quiet(t) == [t EXCEPT !.verbose = FALSE, !.out = <<>>]

\* C24 - Verbose non-interference: one polling call made with verbose = True
\* and with verbose = False on the same client, arguments and answers is at
\* every moment at the same point of the loop with the same attempt counter,
\* sleeps, outcome and result; the diagnostics, which only the verbose call
\* prints, are the only difference.
C24_VerboseOnlyAddsDiagnostics ==
    /\ Quiet(twin[TRUE]) = twin[FALSE]
    /\ twin[FALSE].out = <<>>

\* Both calls have returned the same document at their third fetch after the
\* same two sleeps; the verbose one has printed along the way.
C24_Witness ==
    /\ twin[TRUE].pc = "done" /\ twin[FALSE].pc = "done"
    /\ twin[TRUE].result # None /\ twin[FALSE].result = twin[TRUE].result
    /\ twin[TRUE].attempt_count = 3 /\ twin[FALSE].attempt_count = 3
    /\ twin[TRUE].n_sleep = 2 /\ twin[FALSE].n_sleep = 2
    /\ Len(twin[TRUE].out) >= 2

\* --------------------------------------------- a job that finishes for good

\* One polling call against a service on which the job is first being worked
\* on and, from some moment on, finished for good.  No fetch fails: while the
\* job is worked on every fetch hands the loop some document; once it is
\* finished every fetch hands it a document whose stage is one the call
\* expects.

\* The answers whose fetch does not fail and yields a document.
DocumentResponses ==
    { resp \in Responses : ~fetch(variant, resp).raised /\ fetch(variant, resp).v.t = "dict" }

\* The answers that show the job finished to this call.
FinishedResponses ==
    { resp \in DocumentResponses : DocHasStageIn(fetch(variant, resp).v, Terminal) }

\* The job reaches a terminal stage and stays there.
service_finishes ==
    /\ service = "working"
    /\ service' = "finished"
    /\ UNCHANGED <<variant, entry, pc, endpoint, formats, expected_stages, waiting_time,
                   warmup_time, verbose, attempt_count, last_resp, model_json, status,
                   outcome, result, seen, n_sleep, n_warmup, fetch_after, elapsed, out,
                   sent, polled_before, client, tasks, twin, flow, wire>>

\* An iteration of the loop while the job is worked on.
fetch_while_working ==
    /\ service = "working"
    /\ attempt_count < MaxLiveAttempts
    /\ \E resp \in DocumentResponses : poll_iteration(resp)

\* An iteration of the loop once the job is finished (one more than the
\* iterations explored while the job is worked on is always there to explore).
fetch_when_finished ==
    /\ service = "finished"
    /\ attempt_count <= MaxLiveAttempts
    /\ \E resp \in FinishedResponses : poll_iteration(resp)

NextLive ==
    \/ get_animated_model
    \/ get_generated_model
    \/ get_model_by_polling
    \/ warmup_sleep
    \/ fetch_while_working
    \/ fetch_when_finished
    \/ interval_sleep
    \/ service_finishes

\* Every sleep ends, every fetch is answered and the loop goes on.
SpecLive ==
    /\ Init
    /\ [][NextLive]_vars
    /\ WF_vars(warmup_sleep)
    /\ WF_vars(interval_sleep)
    /\ WF_vars(fetch_while_working)
    /\ WF_vars(fetch_when_finished)

\* C25 - Liveness of polling: when no fetch fails and, from some attempt on,
\* every fetch yields a document whose stage is in the terminal set, a polling
\* call eventually returns a document.
C25_PollingEventuallyReturns ==
    (Polling /\ service = "finished") ~> ReturnedValue

\* The job finished while the call was polling: after two documents that were
\* not ready the third fetch showed a terminal stage and the call returned it.
C25_Witness ==
    /\ service = "finished"
    /\ ReturnedValue
    /\ attempt_count = 3
    /\ seen[1] \notin Terminal /\ seen[2] \notin Terminal
    /\ DocHasStageIn(result, Terminal)

\* C26 - A fetch answered with HTTP 403 and a JSON body is no fetch failure:
\* the body is inspected like any other document, so after a 403 whose body
\* has no terminal "stage" the polling call has neither returned nor failed
\* and is at its sleep or at its next fetch (hence a call that gets only such
\* answers polls forever).
C26_ForbiddenIsInspected ==
    (/\ Polling /\ attempt_count >= 1
     /\ last_resp.json /\ last_resp.status = 403
     /\ ~DocHasStageIn(last_resp.content, Terminal))
    => /\ LastSeen # "<error>"
       /\ LoopPending
       /\ result = None

\* ------------------------------------------- generate, then animate (sync)

\* generate_animated_from_text and generate_animated_from_image of the sync
\* client: submit the generation, poll it, download the mesh into a temporary
\* folder, submit the animation of that folder, poll it.

\* The value of "model" in a generated document that has a mesh: the object
\* {"mesh": {"glb": <url>}}, kept as one token.
MeshObject == "{mesh: {glb: url}}"

\* Documents of a generated model: complete, without "name", without "model".
GenDone   == JDict(<< <<"stage", FCF>>, <<"name", "cat">>, <<"model", MeshObject>> >>)
GenNoName == JDict(<< <<"stage", FCF>>, <<"model", MeshObject>> >>)
GenNoMesh == DocStage2(FCF)

\* `res["model"]["mesh"]["glb"]`: the url when res is a document whose "model"
\* has it; TypeError on None, KeyError or TypeError otherwise.
mesh_glb(res) ==
    IF res.t # "dict" THEN RaiseWith("TypeError")
    ELSE IF py_getitem(res, "model").raised THEN RaiseWith("KeyError")
    ELSE IF py_getitem(res, "model").v.s = MeshObject THEN Value(JStr("url"))
    ELSE RaiseWith("TypeError")

\* The explored answers to the status requests of the two polls.
FlowPollResponses ==
    { Response(TRUE, 200, JList(<<GenDone, JNum(200)>>)),
      Response(TRUE, 200, JList(<<GenNoName, JNum(200)>>)),
      Response(TRUE, 200, JList(<<GenNoMesh, JNum(200)>>)),
      Response(TRUE, 200, JList(<<DocStage(QUEUED), JNum(200)>>)),
      Response(TRUE, 200, GenDone),
      Response(TRUE, 500, DocEmpty) }

\* The explored answers to the two submissions.
FlowSubmitResponses ==
    SubmitResponses \cup { Response(TRUE, 200, JList(<<DocEmpty, JNum(200)>>)) }

\* The path the generation of a method is posted to.
generate_url(name) ==
    IF name = "generate_animated_from_text" THEN "/text-to-3d" ELSE "/image-to-3d"

\* A step of the call: its frame becomes f, nothing else changes.
FlowStep(f) ==
    /\ flow' = f
    /\ UNCHANGED <<variant, entry, pc, endpoint, formats, expected_stages, waiting_time,
                   warmup_time, verbose, attempt_count, last_resp, model_json, status,
                   outcome, result, seen, n_sleep, n_warmup, fetch_after, elapsed, out,
                   sent, polled_before, client, tasks, twin, service, wire>>

\* The name or text of the exception x.
ErrorText(x) == IF x.v.t = "str" THEN x.v.s ELSE "Exception"

\* The call ends with the exception named e.
FlowRaised(f, e) == [f EXCEPT !.pc = "done", !.outcome = "raised", !.error = e]

\* The exception of `submit(...)["model_id"]`, "" when there is none.
submit_error(r) ==
    IF r.raised THEN ErrorText(r)
    ELSE IF py_getitem(r.v, "model_id").raised THEN ErrorText(py_getitem(r.v, "model_id"))
    ELSE ""

\* generate_from_text / generate_from_image, then `res["model_id"]` and the
\* entry of get_generated_model up to its first fetch.
flow_submit_generate ==
    /\ variant = "sync"
    /\ flow.pc = "idle"
    /\ \E name \in {"generate_animated_from_text", "generate_animated_from_image"},
          resp \in FlowSubmitResponses :
          \E r \in {submit(variant, resp)} :
          \E f \in {[flow EXCEPT !.entry = name,
                                 !.steps = <<"submit_generate">>,
                                 !.posts = <<generate_url(name)>>]} :
             IF submit_error(r) # ""
             THEN FlowStep(FlowRaised(f, submit_error(r)))
             ELSE FlowStep([f EXCEPT !.res = r.v, !.pc = "poll", !.phase = "generate",
                                     !.steps = Append(@, "poll_generate")])

\* One iteration of the loop of get_generated_model or of get_animated_model.
flow_poll ==
    /\ flow.pc = "poll"
    /\ flow.attempt_count < MaxFlowAttempts
    /\ \E resp \in FlowPollResponses :
          \E f \in {fetch(variant, resp)} :
          \E d \in {poll_decide(variant, f,
                                _finished_stages(variant)[flow.phase]["default"])} :
          \E v \in {IF d.next = "return_doc" THEN f.v ELSE None} :
             CASE d.next = "sleep" ->
                    FlowStep([flow EXCEPT !.attempt_count = @ + 1, !.pc = "sleep"])
               [] d.next = "raise" ->
                    FlowStep(FlowRaised([flow EXCEPT !.attempt_count = @ + 1], "TypeError"))
               [] OTHER ->
                    IF flow.phase = "generate"
                    THEN FlowStep([flow EXCEPT !.attempt_count = 0, !.res = v,
                                               !.generated = v, !.pc = "download"])
                    ELSE FlowStep([flow EXCEPT !.attempt_count = @ + 1, !.res = v,
                                               !.pc = "done", !.outcome = "returned",
                                               !.result = v])

\* The sleep of waiting_time of either poll.
flow_sleep ==
    /\ flow.pc = "sleep"
    /\ FlowStep([flow EXCEPT !.pc = "poll", !.n_sleep = @ + 1])

\* flow_download with the bug "a document without a mesh url is passed over":
\* the download is skipped and the call goes on to the animation.
flow_download_skips_missing_mesh ==
    /\ flow.pc = "download"
    /\ \E ok \in BOOLEAN :
          \E f \in {[flow EXCEPT !.folders = @ + 1]} :
             IF mesh_glb(flow.res).raised
             THEN FlowStep([f EXCEPT !.pc = "submit_animate"])
             ELSE IF ~ok
             THEN FlowStep(FlowRaised([f EXCEPT !.steps = Append(@, "download")],
                                      "HTTPError"))
             ELSE FlowStep([f EXCEPT !.steps = Append(@, "download"),
                                     !.pc = "submit_animate"])

\* create_temporary_folder(), then download_file(res["model"]["mesh"]["glb"],
\* ...): the url is read from res, the file is requested and written, or the
\* request fails (raise_for_status).
flow_download ==
    /\ flow.pc = "download"
    /\ \E ok \in BOOLEAN :
          \E f \in {[flow EXCEPT !.folders = @ + 1]} :
             IF mesh_glb(flow.res).raised
             THEN FlowStep(FlowRaised(f, ErrorText(mesh_glb(flow.res))))
             ELSE IF ~ok
             THEN FlowStep(FlowRaised([f EXCEPT !.steps = Append(@, "download")],
                                      "HTTPError"))
             ELSE FlowStep([f EXCEPT !.steps = Append(@, "download"),
                                     !.pc = "submit_animate"])

\* animate(tmp_folder, res['name'], ...), then `res['model_id']` and the entry
\* of get_animated_model up to its first fetch.
flow_submit_animate ==
    /\ flow.pc = "submit_animate"
    /\ IF py_getitem(flow.res, "name").raised
       THEN FlowStep(FlowRaised(flow, ErrorText(py_getitem(flow.res, "name"))))
       ELSE \E resp \in FlowSubmitResponses :
            \E r \in {submit(variant, resp)} :
            \E f \in {[flow EXCEPT !.steps = Append(@, "submit_animate"),
                                   !.posts = Append(@, "/animate")]} :
               IF submit_error(r) # ""
               THEN FlowStep(FlowRaised(f, submit_error(r)))
               ELSE FlowStep([f EXCEPT !.res = r.v, !.pc = "poll", !.phase = "animate",
                                       !.steps = Append(@, "poll_animate")])

NextFlow ==
    \/ flow_submit_generate
    \/ flow_poll
    \/ flow_sleep
    \/ flow_download
    \/ flow_submit_animate

SpecFlow == Init /\ [][NextFlow]_vars

\* The steps of the call, in the order of the code.
FlowOrder ==
    <<"submit_generate", "poll_generate", "download", "submit_animate", "poll_animate">>

\* C27 - generate_animated_from_text and generate_animated_from_image run
\* their steps in the order submit-generate, poll-generate, download,
\* submit-animate, poll-animate, none skipped or repeated; the mesh is
\* downloaded and the animation posted only after the generation poll has
\* returned a document that carries the mesh url; one POST goes to the
\* generation path and at most one, after it, to /animate; and once a step
\* has failed or the call has ended nothing more is done.
C27_StepsInOrder ==
    /\ [](/\ Len(flow.steps) <= Len(FlowOrder)
          /\ flow.steps = SubSeq(FlowOrder, 1, Len(flow.steps))
          /\ (\E i \in DOMAIN flow.steps : flow.steps[i] \in {"download", "submit_animate"})
             => /\ flow.generated.t = "dict"
                /\ ~mesh_glb(flow.generated).raised
          /\ flow.posts = IF flow.steps = <<>> THEN <<>>
                          ELSE IF Len(flow.steps) < 4 THEN <<generate_url(flow.entry)>>
                          ELSE <<generate_url(flow.entry), "/animate">>
          /\ flow.outcome # "pending" <=> flow.pc = "done")
    /\ [][flow.pc = "done" => flow' = flow]_vars

\* The whole call went through: both jobs posted, both polls returned, and the
\* caller got the animated document.
C27_Witness ==
    /\ flow.pc = "done" /\ flow.outcome = "returned"
    /\ flow.steps = FlowOrder
    /\ flow.posts = <<generate_url(flow.entry), "/animate">>
    /\ flow.generated = GenDone
    /\ flow.result # None

\* ------------------------------------------- one request and its environment

\* The values of the environment variable AW_MODE that are explored; "" stands
\* for a variable that is unset or empty.
AwModes == {"", "staging", "production"}

\* get_env: the value of the variable, an exception when it has none.
get_env(value) == IF value = "" THEN Raise ELSE Value(JStr(value))

\* __init__: is_staging of a client constructed under AW_MODE = mode.  The
\* root client reads no AW_MODE and has no is_staging.
is_staging(v, mode) ==
    IF v = "root" THEN FALSE
    ELSE IF get_env(mode).raised THEN FALSE
    ELSE get_env(mode).v = JStr("staging")

\* The methods of a client that send a status fetch or submit a job.
StatusFetches == {"get_model", "_get_model"}
WireEntries(v) ==
    CASE v = "sync"  -> {"get_model", "_get_model", "animate",
                         "generate_from_text", "generate_from_image"}
      [] OTHER       -> {"get_model", "animate"}

\* The query parameters the method puts on its request.
request_params(v, name, c) ==
    CASE v = "root" /\ name = "get_model" -> {"key", "id", "stage", "staging"}
      [] v = "root"                       -> {}
      [] name \in StatusFetches           ->
            {"key", "id", "stage"} \cup (IF c.is_staging THEN {"staging"} ELSE {})
      [] OTHER                            -> IF c.is_staging THEN {"staging"} ELSE {}

\* Whether send_request of the variant gives its request_timeout to the HTTP
\* library: the root and async ones open the session with
\* ClientTimeout(total=request_timeout), the sync one never uses the parameter.
applies_timeout(v) == v # "sync"

\* A step of the request: client and wire change, nothing else does.
WireStep(c, w) ==
    /\ client' = c
    /\ wire' = w
    /\ UNCHANGED <<variant, entry, pc, endpoint, formats, expected_stages, waiting_time,
                   warmup_time, verbose, attempt_count, last_resp, model_json, status,
                   outcome, result, seen, n_sleep, n_warmup, fetch_after, elapsed, out,
                   sent, polled_before, tasks, twin, service, flow>>

\* AWClient(): a client is constructed under some AW_MODE.
construct ==
    /\ wire.pc \in {"idle", "done"}
    /\ \E mode \in AwModes :
          WireStep([AWClient(variant) EXCEPT !.is_staging = is_staging(variant, mode)],
                   [NewWire EXCEPT !.AW_MODE = mode])

\* A method builds its parameters and calls send_request, which sends the
\* request and waits for the answer.
request_start ==
    /\ wire.pc \in {"idle", "done"}
    /\ \E name \in WireEntries(variant), t \in 1..(MaxWait - 1) :
          WireStep(client,
                   [NewWire EXCEPT !.AW_MODE = wire.AW_MODE, !.pc = "waiting",
                                   !.entry = name,
                                   !.method = IF name \in StatusFetches THEN "GET" ELSE "POST",
                                   !.params = request_params(variant, name, client),
                                   !.request_timeout = t])

\* Time passes without an answer; a request whose total timeout has run out
\* ends with a timeout error.
request_tick ==
    /\ wire.pc = "waiting"
    /\ wire.waited < MaxWait
    /\ IF applies_timeout(variant) /\ wire.waited + 1 >= wire.request_timeout
       THEN WireStep(client, [wire EXCEPT !.waited = @ + 1, !.pc = "done",
                                          !.outcome = "raised",
                                          !.result = JStr("TimeoutError")])
       ELSE WireStep(client, [wire EXCEPT !.waited = @ + 1])

\* A content-type header is the sequence of the pieces of its text; <<>> is
\* an answer without the header.  The explored ones: JSON, JSON with a
\* charset parameter, JSON Lines (another media type, whose name begins with
\* the name of JSON), HTML, none.
ContentTypes ==
    { <<"application/json">>,
      <<"application/json", ";", " charset=utf-8">>,
      <<"application/json", "l">>,
      <<"text/html">>,
      <<>> }

\* The media type of a header: its text before the parameters.
RECURSIVE media_type(_)
media_type(h) ==
    IF h = <<>> \/ h[1] = ";" THEN <<>> ELSE <<h[1]>> \o media_type(Tail(h))

\* `res.content_type` of aiohttp: the media type of the header,
\* application/octet-stream for an answer without one.
content_type(h) == IF h = <<>> THEN <<"application/octet-stream">> ELSE media_type(h)

\* `"application/json" in content_type` for the text of a header: no explored
\* header has the searched text across two of its pieces.
header_contains(h, text) == \E i \in DOMAIN h : h[i] = text

\* The body of an answer that is no JSON text.
HtmlBody == JStr("<html>")

\* The bodies of the explored answers.
WireBodies == {DocModelId, DocError, HtmlBody}

\* The statuses of the explored answers.
WireStatuses == {200, 403, 500}

\* send_request from the answer on: the test of the content type (equality
\* with application/json on aiohttp's content_type in the root and async
\* variants, a substring test on the header, which must exist, in the sync
\* variant), then the decoding of the body, then the status.
send_request_answered(v, h, st, body) ==
    IF v = "sync" /\ h = <<>> THEN RaiseWith("KeyError")
    ELSE IF v = "sync" /\ ~header_contains(h, "application/json")
    THEN RaiseWith(ContentTypeError)
    ELSE IF v # "sync" /\ content_type(h) # <<"application/json">>
    THEN RaiseWith(ContentTypeError)
    ELSE IF body = HtmlBody THEN RaiseWith("JSONDecodeError")
    ELSE send_request(v, Response(TRUE, st, body))

\* The server answers and send_request returns or raises.
request_answer ==
    /\ wire.pc = "waiting"
    /\ \E h \in ContentTypes, st \in WireStatuses, body \in WireBodies :
          \E r \in {send_request_answered(variant, h, st, body)} :
             WireStep(client, [wire EXCEPT !.pc = "done",
                                           !.answered = TRUE,
                                           !.content_type = h,
                                           !.status = st,
                                           !.outcome = IF r.raised THEN "raised" ELSE "returned",
                                           !.result = r.v])

NextWire ==
    \/ construct
    \/ request_start
    \/ request_tick
    \/ request_answer

SpecWire == Init /\ [][NextWire]_vars

\* C28 - A request that the server does not answer is never still waiting
\* when its request_timeout has run out: send_request applies the parameter as
\* the total timeout of the request, in the async and in the sync variant.
C28_UnansweredRequestTimesOut ==
    (variant \in {"async", "sync"} /\ wire.pc = "waiting")
        => wire.waited < wire.request_timeout

\* C29 - A client is in staging mode exactly when AW_MODE is "staging" (an
\* unset AW_MODE gives a client that is not), and every status fetch and every
\* job submission carries the parameter staging exactly when AW_MODE is
\* "staging", in every client variant.
C29_StagingFollowsMode ==
    /\ variant # "root" => (client.is_staging <=> wire.AW_MODE = "staging")
    /\ wire.pc # "idle" => ("staging" \in wire.params <=> wire.AW_MODE = "staging")

\* C30 - In the single-shot check a status fetch that failed reaches the
\* caller as an exception: the check never returns False or True for a fetch
\* that failed.  The polling loop, on the contrary, turns a failed fetch into
\* a return without a document.
C30_CheckPropagatesFetchFailure ==
    /\ (Checking /\ Len(seen) = 1 /\ CheckFetch.raised)
          => (pc = "done" /\ outcome = "raised" /\ result = None)
    /\ (Polling /\ pc = "done" /\ fetch(variant, last_resp).raised)
          => (outcome = "returned" /\ result = None)

\* is_animation_done got a 500 from the service on its one fetch and raised.
C30_Witness ==
    /\ entry = "is_animation_done"
    /\ last_resp = Response(TRUE, 500, DocEmpty)
    /\ Len(seen) = 1 /\ seen[1] = "<error>"
    /\ pc = "done" /\ outcome = "raised"

\* ------------------------------------------------------------ list answers

\* A JSON array of status documents, of any length.
DocList(b) == b.t = "list" /\ \A i \in DOMAIN b.items : b.items[i].t = "dict"

\* The last answer of the call was returned by send_request and is a status
\* document or an array of status documents.
AnsweredWithDocuments ==
    /\ last_resp.json /\ last_resp.status \in {200, 403}
    /\ last_resp.content.t = "dict" \/ DocList(last_resp.content)

\* `res[0] if isinstance(res, list) and len(res) == 1 else res`
Unwrapped(res) == IF is_single_list(res) THEN res.items[1] ELSE res

\* C31 - The status fetch hands over the single item of an array with exactly
\* one item and otherwise the whole response unchanged; an array with no or
\* with two or more status documents is taken as not ready by the polling
\* loop, which goes on polling, and by the single-shot check, which reports
\* False.
C31_ListAnswers ==
    /\ (Polling /\ attempt_count >= 1 /\ AnsweredWithDocuments)
          => /\ ~LastFetch.raised
             /\ LastFetch.v = Unwrapped(last_resp.content)
             /\ (DocList(last_resp.content) /\ Len(last_resp.content.items) # 1)
                   => (LoopPending /\ result = None)
    /\ (Checking /\ PairDefined /\ Len(seen) = 1 /\ AnsweredWithDocuments)
          => /\ ~CheckFetch.raised
             /\ CheckFetch.v = Unwrapped(last_resp.content)
             /\ (DocList(last_resp.content) /\ Len(last_resp.content.items) # 1)
                   => (outcome = "returned" /\ result = JBool(FALSE))

\* C32 - send_request raises for every answer whose content type is not JSON
\* (its media type is not application/json, or it has no content type),
\* whatever the HTTP status, in the root, async and sync variants; such an
\* answer is never returned to the caller as a document.
C32_NonJsonAlwaysRaises ==
    (wire.pc = "done" /\ wire.answered /\ media_type(wire.content_type) # <<"application/json">>)
        => (wire.outcome = "raised" /\ wire.result.t # "dict")

====
